---------------------------- MODULE Spec2Model ----------------------------
(***************************************************************************)
(* A model of the native computation core of claude-fleet: the engines of  *)
(* crates/ringbus, crates/logstream, crates/search and crates/dag, each as *)
(* a state machine of its own (SpecBus, SpecChunk, SpecLog, SpecSearch,    *)
(* SpecDag) over one set of variables.  Strings the code inspects          *)
(* character by character (handles, read_by, ids, log lines, session ids)  *)
(* are sequences of one-character strings.                                 *)
(***************************************************************************)
EXTENDS Integers, Sequences, FiniteSets, TLC

(***************************************************************************)
(* Generic helpers: Option<T>, strings as sequences of characters.         *)
(***************************************************************************)

\* Option<T>: None is the empty sequence, Some(v) is <<v>>.
None == << >>

Some(v) == << v >>

\* Option::unwrap_or
UnwrapOr(opt, default) == IF opt = None THEN default ELSE opt[1]

\* str::contains(pattern): substring search; the empty pattern is contained
\* in every string.
Contains(s, pat) ==
    \E i \in 0 .. (Len(s) - Len(pat)) : SubSeq(s, i + 1, i + Len(pat)) = pat

\* The last n elements of a sequence (all of them when it is shorter).
LastN(s, n) == IF Len(s) <= n THEN s ELSE SubSeq(s, Len(s) - n + 1, Len(s))

Min(a, b) == IF a <= b THEN a ELSE b

\* The elements of a sequence, as a set.
Range(s) == { s[i] : i \in 1 .. Len(s) }

\* All orders in which the elements of a finite set can be iterated
\* (the iteration order of a HashSet / HashMap is unspecified).
Orders(S) ==
    { o \in [1 .. Cardinality(S) -> S] : \A i, j \in 1 .. Cardinality(S) : (i # j) => (o[i] # o[j]) }

DigitChars == << "0", "1", "2", "3", "4", "5", "6", "7", "8", "9" >>

\* Display of an unsigned integer ("{}" in format!): its decimal digits.
RECURSIVE Decimal(_)
Decimal(n) ==
    IF n < 10 THEN << DigitChars[n + 1] >>
    ELSE Decimal(n \div 10) \o << DigitChars[(n % 10) + 1] >>

(***************************************************************************)
(* Bounds of the model.                                                    *)
(***************************************************************************)

\* Number of steps (calls and clock ticks) explored on one bus.
MaxSteps == 5

\* Number of steps (calls and clock ticks) explored on one log parser.
MaxLogSteps == 3

\* Number of add and delete operations explored on one search index.
MaxOpstamp == 2

\* Number of commits explored on one search index.
MaxCommits == 2

\* Number of failures to acquire the writer lock explored on one search
\* index.
MaxLockFailures == 2

\* Number of nodes in the input of topological_sort.
MaxNodes == 3

\* Number of nodes in the input of the cycle checks.
MaxGraph == 3

\* Number of tasks given to route_tasks.
MaxTasks == 3

\* Number of votes given to tally_votes.
MaxVotes == 3

\* Number of calls explored on one sliding-window counter.
MaxCounterCalls == 3

\* Number of nodes in the input of get_ready_nodes.
MaxReadyNodes == 3

\* Number of nodes in the input of critical_path.
MaxCriticalNodes == 3

\* Significant bits of a floating-point value.  f64 has 53; the model
\* explores the same rounding rule with a short significand.
MantissaBits == 3

\* Number of pieces an input stream cut into chunks is made of.
MaxPieces == 4

\* Largest value of the wall clock while a stream is fed in chunks.
MaxChunkTime == 2

\* Capacities of the parser's event and output-line buffers.  The crate
\* sets 500 and 1000; the model explores the same eviction rule with small
\* capacities.
MAX_EVENTS == 2

MAX_OUTPUT_LINES == 2

\* Per-topic channel capacity.  The crate sets 10 000; the model explores
\* the same eviction rule with a small capacity.
MAX_MESSAGES_PER_TOPIC == 2

(***************************************************************************)
(* State.                                                                  *)
(***************************************************************************)
VARIABLES
    \* ---- RingBus (crates/ringbus) ----
    channels,      \* topic -> sequence of BusMessage, oldest first
    subscribers,   \* handle -> set of topics
    next_id,       \* auto-incrementing message id counter
    now,           \* the wall clock, chrono::Utc::now().timestamp_millis()
    busCall,       \* the last call made on the bus, when it was a read: its arguments
    busRet,        \* the list that read returned
    delivered,     \* history: <<handle, id>> for every message read returned to handle
    published,     \* history: [id, topic] of every publish, in call order
    drainCalled,   \* history: whether drain_old was ever called
    nSteps,        \* history: number of steps taken so far
    unsubscribed,  \* history: <<handle, topic>> unsubscribed and not subscribed since
    rereadCalled,  \* history: whether read was ever called with unread_only = false
    \* ---- LogStreamParser (crates/logstream) ----
    parser,        \* the LogStreamParser: a record of its fields
    logNow,        \* the wall clock
    logCall,       \* the last call made on the parser, with its argument
    logRet,        \* what that call returned
    nLogSteps,     \* history: number of steps taken so far
    arrivedEvents, \* history: every event the calls returned, in order
    arrivedLines,  \* history: every output line the input carried, in order
    lastLineAt,    \* history: the time the last non-empty line was parsed, if any
    \* ---- one stream fed to a parser in chunks ----
    whole,         \* the whole input stream
    rest,          \* the part of it not fed yet
    chunkParser,   \* the LogStreamParser the chunks are fed to
    chunkOut,      \* the events the parse_batch calls returned, concatenated
    chunkNow,      \* the wall clock
    cutMidLine,    \* history: whether a chunk ended in the middle of a line
    \* ---- SearchIndex (crates/search) ----
    pending,       \* the writer's operations not committed yet
    committed,     \* the documents of the last commit
    snapshot,      \* the documents the reader's searcher sees
    opstamp,       \* the writer's next operation stamp
    writer,        \* the holder of the writer lock, if any
    pc,            \* caller -> the call it is inside the critical section of
    srchCall,      \* the step just taken, when it was a search or stats call
    top_docs,      \* the (score, doc address) pairs the collector returned
    srchRet,       \* what that call returned
    commitStamp,   \* history: the operation stamp at the last commit
    snapStamp,     \* history: the operation stamp of the commit the reader loaded
    indexed,       \* history: every document added, with its operation stamp
    deleteCalls,   \* history: every delete_session executed, with its stamp
    commits,       \* history: number of commits executed
    poisoned,      \* whether the writer lock is poisoned
    lockFailures,  \* history: number of calls that failed to acquire the writer
    \* ---- DagSolver::topological_sort (crates/dag) ----
    nodes,         \* the input: a sequence of DagNode
    adj,           \* id -> ids of the nodes depending on it, in input order
    in_deg,        \* id -> number of dependencies not emitted yet
    node_map,      \* id -> the DagNode of that id
    queue,         \* ids whose in-degree reached zero
    order,         \* ids emitted so far
    levels,        \* the levels emitted so far
    dagPc,         \* position in topological_sort
    dagRet,        \* the TopologicalResult, when it returned
    \* ---- DagSolver: whole calls on one input (crates/dag) ----
    graph,         \* nodes_json decoded: a sequence of DagNode
    completed,     \* completed_json decoded: a set of ids
    topoRet,       \* what topological_sort returned on graph, once called
    cyclesRet,     \* what detect_cycles returned on graph, once called
    criticalRet,   \* what critical_path returned on graph, once called
    readyRet,      \* what get_ready_nodes returned, once called
    rounds,        \* what each get_ready_nodes call of the scheduling loop returned
    \* ---- SlidingWindowCounter (crates/metrics) ----
    swc,           \* the SlidingWindowCounter: a record of its fields
    swcLog,        \* history: the calls made on it, in order
    swcRet,        \* what the last call returned
    swcPanicked,   \* whether a call panicked
    \* ---- SwarmEngine: tally_votes and route_tasks (crates/swarm) ----
    swarmCall,     \* the last call, with its arguments
    swarmRet,      \* what that call returned
    routePicks,    \* history: the worker route_tasks picked for each task
    \* ---- CompoundAccumulator (crates/compound) ----
    points,        \* the ring buffer of TimeSeriesPoint, oldest first
    compNow,       \* the wall clock, chrono::Utc::now().timestamp_millis()
    compCall,      \* the last call made on the accumulator, with its argument
    compRet,       \* what that call returned
    pushed,        \* history: the points of the successful pushes, in call order
    nCompSteps,    \* history: number of steps taken so far
    \* ---- MetricsEngine (crates/metrics) ----
    histograms,    \* name -> index into histogram_store
    histogram_store, \* the MetricsHistogram of every create_histogram call
    counters,      \* name -> index into counter_store
    counter_store, \* the SlidingWindowCounter of every create_counter call
    meCall,        \* the last call made on the engine, with its arguments
    meRet,         \* what that call returned
    mePanicked,    \* whether a call panicked
    creates,       \* history: the create calls made, in order
    nMeSteps       \* history: number of steps taken so far

busVars == << channels, subscribers, next_id, now, busCall, busRet,
              delivered, published, drainCalled, nSteps, unsubscribed,
              rereadCalled >>

logVars == << parser, logNow, logCall, logRet, nLogSteps, arrivedEvents,
             arrivedLines, lastLineAt >>

chunkVars == << whole, rest, chunkParser, chunkOut, chunkNow, cutMidLine >>

srchVars == << pending, committed, snapshot, opstamp, writer, pc, srchCall,
               top_docs, srchRet, commitStamp, snapStamp, indexed,
               deleteCalls, commits, poisoned, lockFailures >>

dagVars == << nodes, adj, in_deg, node_map, queue, order, levels, dagPc,
              dagRet >>

solverVars == << graph, completed, topoRet, cyclesRet, criticalRet, readyRet,
                rounds >>

swcVars == << swc, swcLog, swcRet, swcPanicked >>

swarmVars == << swarmCall, swarmRet, routePicks >>

compVars == << points, compNow, compCall, compRet, pushed, nCompSteps >>

meVars == << histograms, histogram_store, counters, counter_store, meCall,
             meRet, mePanicked, creates, nMeSteps >>

vars == << busVars, logVars, chunkVars, srchVars, dagVars, solverVars,
           swcVars, swarmVars, compVars, meVars >>

\* What the steps of one engine leave alone.
notBusVars == << logVars, chunkVars, srchVars, dagVars,
    solverVars, swcVars, swarmVars,
    compVars, meVars >>

notLogVars == << busVars, chunkVars, srchVars, dagVars,
    solverVars, swcVars, swarmVars,
    compVars, meVars >>

notChunkVars == << busVars, logVars, srchVars, dagVars,
    solverVars, swcVars, swarmVars,
    compVars, meVars >>

notSrchVars == << busVars, logVars, chunkVars, dagVars,
    solverVars, swcVars, swarmVars,
    compVars, meVars >>

notDagVars == << busVars, logVars, chunkVars, srchVars,
    solverVars, swcVars, swarmVars,
    compVars, meVars >>

notSolverVars == << busVars, logVars, chunkVars, srchVars, dagVars,
    swcVars, swarmVars,
    compVars, meVars >>

notSwcVars == << busVars, logVars, chunkVars, srchVars, dagVars,
    solverVars, swarmVars,
    compVars, meVars >>

notSwarmVars == << busVars, logVars, chunkVars, srchVars, dagVars,
    solverVars, swcVars,
    compVars, meVars >>

notCompVars == << busVars, logVars, chunkVars, srchVars, dagVars,
    solverVars, swcVars, swarmVars, meVars >>

notMeVars == << busVars, logVars, chunkVars, srchVars, dagVars,
    solverVars, swcVars, swarmVars, compVars >>

(***************************************************************************)
(* RingBus                                                                 *)
(***************************************************************************)

Topics == { "t1", "t2" }

\* Subscriber handles; the first is a substring of the second.
Handles == { << "w" >>, << "w", "x" >> }

\* priority arguments of publish (u32); values above 3 are clamped.
PriorityInputs == { 1, 4 }

\* limit arguments of read / read_topic: Option<u32>.
LimitInputs == { None, Some(0), Some(1), Some(2) }

\* unread_only arguments of read: Option<bool>.
UnreadInputs == { None, Some(TRUE), Some(FALSE) }

\* max_age_ms arguments of drain_old.
MaxAgeInputs == { 0 }

DEFAULT_LIMIT == 50

\* format!("msg_{}", n)
MsgId(n) == << "m", "s", "g", "_" >> \o Decimal(n)

\* The message publish builds.  sender and payload are opaque to the bus
\* and are left out.
NewMessage(topic, priority, n, ts) ==
    [ id        |-> MsgId(n),
      topic     |-> topic,
      priority  |-> Min(priority, 3),
      timestamp |-> ts,
      read_by   |-> << >> ]

\* self.next_id += 1
NextIdStuck(n) == n

NextId(n) == n + 1

\* Evict oldest if at capacity, then push_back.
PushUnbounded(channel, msg) == Append(channel, msg)

PushBounded(channel, msg) ==
    IF Len(channel) >= MAX_MESSAGES_PER_TOPIC
    THEN Append(Tail(channel), msg)
    ELSE Append(channel, msg)

\* The unread filter of read: the message was already read by the handle.
AlreadyReadFilterOff(msg, handle) == FALSE

AlreadyRead(msg, handle) == Contains(msg.read_by, handle)

\* One channel walked newest first (channel.iter().rev()), from index i down.
RECURSIVE WalkChannel(_, _, _, _, _, _)
WalkChannel(channel, i, handle, unread_only, limit, acc) ==
    IF i = 0 THEN acc
    ELSE IF Len(acc) >= limit THEN acc
    ELSE IF unread_only /\ AlreadyRead(channel[i], handle)
         THEN WalkChannel(channel, i - 1, handle, unread_only, limit, acc)
         ELSE WalkChannel(channel, i - 1, handle, unread_only, limit,
                          Append(acc, channel[i]))

\* The collection loop of read over the subscribed topics, in the order
\* the HashSet yields them.
RECURSIVE CollectTopics(_, _, _, _, _, _, _)
CollectTopics(chans, topicOrder, k, handle, unread_only, limit, acc) ==
    IF k > Len(topicOrder) THEN acc
    ELSE CollectTopics(chans, topicOrder, k + 1, handle, unread_only, limit,
                       WalkChannel(chans[topicOrder[k]], Len(chans[topicOrder[k]]),
                                   handle, unread_only, limit, acc))

\* The comparator of read's sort_by: TRUE when a must not come after b,
\* i.e. b.priority.cmp(a.priority).then(a.timestamp.cmp(b.timestamp)) is
\* Less or Equal.
ReadOrderPriorityOnly(a, b) == b.priority <= a.priority

ReadOrder(a, b) ==
    \/ b.priority < a.priority
    \/ b.priority = a.priority /\ a.timestamp <= b.timestamp

\* Vec::sort_by is a stable sort: insertion of each element, left to
\* right, after the elements that must not come after it.
RECURSIVE InsertSorted(_, _)
InsertSorted(sorted, x) ==
    IF sorted = << >> THEN << x >>
    ELSE IF ReadOrder(sorted[1], x)
         THEN << sorted[1] >> \o InsertSorted(Tail(sorted), x)
         ELSE << x >> \o sorted

RECURSIVE SortMessages(_, _, _)
SortMessages(msgs, k, acc) ==
    IF k > Len(msgs) THEN acc
    ELSE SortMessages(msgs, k + 1, InsertSorted(acc, msgs[k]))

\* Vec::truncate
TruncateOneLess(s, n) == IF Len(s) >= n THEN SubSeq(s, 1, n - 1) ELSE s

Truncate(s, n) == IF Len(s) > n THEN SubSeq(s, 1, n) ELSE s

\* read_by gets the handle appended, after a comma when it is not empty.
AppendReaderTwice(read_by, handle) ==
    IF read_by # << >> THEN read_by \o << "," >> \o handle \o << "," >> \o handle
    ELSE read_by \o handle \o << "," >> \o handle

AppendReader(read_by, handle) ==
    IF read_by # << >> THEN read_by \o << "," >> \o handle ELSE read_by \o handle

\* The first message of the channel with the given id gets the handle.
RECURSIVE MarkInChannel(_, _, _, _)
MarkInChannel(channel, i, id, handle) ==
    IF i > Len(channel) THEN channel
    ELSE IF channel[i].id = id
         THEN [ channel EXCEPT ![i].read_by = AppendReader(@, handle) ]
         ELSE MarkInChannel(channel, i + 1, id, handle)

\* "Mark as read": for every returned message, in order.
RECURSIVE MarkRead(_, _, _, _)
MarkRead(chans, msgs, k, handle) ==
    IF k > Len(msgs) THEN chans
    ELSE MarkRead([ chans EXCEPT ![msgs[k].topic] =
                        MarkInChannel(@, 1, msgs[k].id, handle) ],
                  msgs, k + 1, handle)

\* The topics read collects from: those the handle is subscribed to, none
\* for a handle without entry.
EveryTopic(subs, handle) == Topics

SubscribedTopics(subs, handle) == subs[handle]

\* The list read returns, for one iteration order of the subscribed topics.
ReadResult(chans, topicOrder, handle, limit, unread_only) ==
    Truncate(SortMessages(CollectTopics(chans, topicOrder, 1, handle, unread_only,
                                        limit, << >>),
                          1, << >>),
             limit)

\* channel.iter().rev().take(limit)
RECURSIVE NewestFirst(_, _, _)
NewestFirst(channel, i, limit) ==
    IF i = 0 \/ limit = 0 THEN << >>
    ELSE << channel[i] >> \o NewestFirst(channel, i - 1, limit - 1)

\* channel.retain(|m| m.timestamp >= cutoff)
RECURSIVE Retain(_, _)
Retain(channel, cutoff) ==
    IF channel = << >> THEN << >>
    ELSE IF Head(channel).timestamp >= cutoff
         THEN << Head(channel) >> \o Retain(Tail(channel), cutoff)
         ELSE Retain(Tail(channel), cutoff)

\* The value of busCall after a call other than read.
NotRead == [ op |-> "other" ]

\* RingBus::new().  A topic without channel and a handle without entry
\* behave as an empty channel and an empty topic set in every operation
\* modelled here, and are represented so.
BusInit ==
    /\ channels = [ t \in Topics |-> << >> ]
    /\ subscribers = [ h \in Handles |-> {} ]
    /\ next_id = 1
    /\ now = 1
    /\ busCall = NotRead
    /\ busRet = << >>
    /\ delivered = {}
    /\ published = << >>
    /\ drainCalled = FALSE
    /\ nSteps = 0
    /\ unsubscribed = {}
    /\ rereadCalled = FALSE

\* One more step on the bus, within the number of steps explored.
Stepped ==
    /\ nSteps < MaxSteps
    /\ nSteps' = nSteps + 1
    /\ UNCHANGED notBusVars

\* The wall clock advances between calls.
Tick ==
    /\ Stepped
    /\ now' = now + 1
    /\ UNCHANGED << channels, subscribers, next_id, busCall, busRet, delivered,
                    published, drainCalled, unsubscribed,
                    rereadCalled >>

publish(topic, priority) ==
    /\ Stepped
    /\ LET msg == NewMessage(topic, priority, next_id, now)
       IN /\ channels' = [ channels EXCEPT ![topic] = PushBounded(@, msg) ]
          /\ next_id' = NextId(next_id)
          /\ published' = Append(published, [ id |-> msg.id, topic |-> topic ])
    /\ busRet' = << >>
    /\ busCall' = NotRead
    /\ UNCHANGED << subscribers, now, delivered, drainCalled, unsubscribed,
                    rereadCalled >>

subscribe(handle, topic) ==
    /\ Stepped
    /\ subscribers' = [ subscribers EXCEPT ![handle] = @ \cup { topic } ]
    /\ busCall' = NotRead
    /\ busRet' = << >>
    /\ unsubscribed' = unsubscribed \ { << handle, topic >> }
    /\ UNCHANGED << channels, next_id, now, delivered, published, drainCalled,
                    rereadCalled >>

unsubscribe(handle, topic) ==
    /\ Stepped
    /\ subscribers' = [ subscribers EXCEPT ![handle] = @ \ { topic } ]
    /\ busCall' = NotRead
    /\ busRet' = << >>
    /\ unsubscribed' = unsubscribed \cup { << handle, topic >> }
    /\ UNCHANGED << channels, next_id, now, delivered, published, drainCalled,
                    rereadCalled >>

read(handle, limitOpt, unreadOpt) ==
    /\ Stepped
    /\ LET limit == UnwrapOr(limitOpt, DEFAULT_LIMIT)
           unread_only == UnwrapOr(unreadOpt, TRUE)
       IN \E topicOrder \in Orders(SubscribedTopics(subscribers, handle)) :
            LET messages == ReadResult(channels, topicOrder, handle, limit, unread_only)
            IN /\ channels' = MarkRead(channels, messages, 1, handle)
               /\ busRet' = messages
               /\ busCall' = [ op |-> "read", handle |-> handle,
                               unread_only |-> unread_only ]
               /\ rereadCalled' = (rereadCalled \/ ~unread_only)
               /\ delivered' = delivered \cup
                                 { << handle, messages[i].id >> : i \in 1 .. Len(messages) }
    /\ UNCHANGED << subscribers, next_id, now, published, drainCalled,
                    unsubscribed >>

\* What read_topic returns; it takes &self and changes nothing.
ReadTopicResult(chans, topic, limitOpt) ==
    NewestFirst(chans[topic], Len(chans[topic]), UnwrapOr(limitOpt, DEFAULT_LIMIT))

read_topic(topic, limitOpt) ==
    /\ Stepped
    /\ Len(ReadTopicResult(channels, topic, limitOpt)) <= Len(channels[topic])
    /\ busRet' = << >>
    /\ busCall' = NotRead
    /\ UNCHANGED << channels, subscribers, next_id, now, delivered, published,
                    drainCalled, unsubscribed,
                    rereadCalled >>

drain_old(max_age_ms) ==
    /\ Stepped
    /\ channels' = [ t \in Topics |-> Retain(channels[t], now - max_age_ms) ]
    /\ busCall' = NotRead
    /\ busRet' = << >>
    /\ drainCalled' = TRUE
    /\ UNCHANGED << subscribers, next_id, now, delivered, published,
                    unsubscribed,
                    rereadCalled >>

BusNext ==
    \/ Tick
    \/ \E t \in Topics, p \in PriorityInputs : publish(t, p)
    \/ \E h \in Handles, t \in Topics : subscribe(h, t)
    \/ \E h \in Handles, t \in Topics : unsubscribe(h, t)
    \/ \E h \in Handles, l \in LimitInputs, u \in UnreadInputs : read(h, l, u)
    \/ \E t \in Topics, l \in LimitInputs : read_topic(t, l)
    \/ \E a \in MaxAgeInputs : drain_old(a)

(***************************************************************************)
(* LogStream parser (crates/logstream)                                     *)
(*                                                                         *)
(* A log stream is a sequence of lexical symbols: the line feed, the       *)
(* space, a plain character, the braces of a JSON object, and one symbol   *)
(* for each "key":value member the parser's RawEvent shape knows.          *)
(***************************************************************************)

LF == "\n"

SP == " "

\* The members of a JSON object: symbol -> key and decoded value.
\* A message value is the list of its content elements.
Members ==
    [ sym \in { "T:system", "T:assistant", "T:result", "T:user",
                "S:init", "S:error", "I:s1", "I:", "M:hi", "M:a+b" } |->
        CASE sym = "T:system"    -> [ key |-> "type", value |-> "system" ]
          [] sym = "T:assistant" -> [ key |-> "type", value |-> "assistant" ]
          [] sym = "T:result"    -> [ key |-> "type", value |-> "result" ]
          [] sym = "T:user"      -> [ key |-> "type", value |-> "user" ]
          [] sym = "S:init"      -> [ key |-> "subtype", value |-> "init" ]
          [] sym = "S:error"     -> [ key |-> "subtype", value |-> "error" ]
          [] sym = "I:s1"        -> [ key |-> "session_id", value |-> "s1" ]
          [] sym = "I:"          -> [ key |-> "session_id", value |-> "" ]
          [] sym = "M:hi"        -> [ key |-> "message", value |->
                                        << [ content_type |-> Some("text"), text |-> Some(<< "hi" >>) ] >> ]
          [] sym = "M:a+b"       -> [ key |-> "message", value |->
                                        << [ content_type |-> Some("text"), text |-> Some(<< "a" >>) ],
                                           [ content_type |-> Some("tool_use"), text |-> None ],
                                           [ content_type |-> Some("text"), text |-> Some(<< "b" >>) ] >> ] ]

MemberSymbols == DOMAIN Members

IsWhitespace(c) == c \in { SP, LF }

\* str::trim
RECURSIVE TrimStart(_)
TrimStart(s) ==
    IF s # << >> /\ IsWhitespace(Head(s)) THEN TrimStart(Tail(s)) ELSE s

RECURSIVE TrimEnd(_)
TrimEnd(s) ==
    IF s # << >> /\ IsWhitespace(s[Len(s)]) THEN TrimEnd(SubSeq(s, 1, Len(s) - 1)) ELSE s

Trim(s) == TrimEnd(TrimStart(s))

\* The value of the member with the given key, as an Option.
MemberValue(body, key) ==
    IF \E i \in 1 .. Len(body) : Members[body[i]].key = key
    THEN Some(Members[body[CHOOSE i \in 1 .. Len(body) : Members[body[i]].key = key]].value)
    ELSE None

\* serde_json::from_str::<RawEvent>: Some(raw) for an object whose members
\* are known members, each key at most once (a repeated key is an error
\* of the derived deserializer); None for anything else.
Decode(trimmed) ==
    IF /\ Len(trimmed) >= 2
       /\ trimmed[1] = "{"
       /\ trimmed[Len(trimmed)] = "}"
       /\ \A i \in 2 .. Len(trimmed) - 1 : trimmed[i] \in MemberSymbols
       /\ \A i, j \in 2 .. Len(trimmed) - 1 :
            (i # j) => Members[trimmed[i]].key # Members[trimmed[j]].key
    THEN LET body == SubSeq(trimmed, 2, Len(trimmed) - 1)
         IN Some([ event_type |-> MemberValue(body, "type"),
                   subtype    |-> MemberValue(body, "subtype"),
                   session_id |-> MemberValue(body, "session_id"),
                   message    |-> MemberValue(body, "message") ])
    ELSE None

HEALTH_TIMEOUT_MS == 60000

\* LogStreamParser::new()
NewParser ==
    [ events        |-> << >>,
      output_lines  |-> << >>,
      line_buffer   |-> << >>,
      session_id    |-> "",
      state         |-> "idle",
      last_event_at |-> 0,
      error_count   |-> 0,
      total_events  |-> 0 ]

PushEvent(p, event) ==
    [ p EXCEPT !.events = IF Len(@) >= MAX_EVENTS
                          THEN Append(Tail(@), event) ELSE Append(@, event) ]

PushOutputDropNewest(p, line) ==
    [ p EXCEPT !.output_lines = IF Len(@) >= MAX_OUTPUT_LINES
                                THEN @ ELSE Append(@, line) ]

PushOutput(p, line) ==
    [ p EXCEPT !.output_lines = IF Len(@) >= MAX_OUTPUT_LINES
                                THEN Append(Tail(@), line) ELSE Append(@, line) ]

\* The loop over the content elements of an assistant message: acc holds
\* the parser and the text gathered so far.
RECURSIVE ExtractText(_, _, _)
ExtractText(content, k, acc) ==
    IF k > Len(content) THEN acc
    ELSE IF content[k].content_type = Some("text") /\ content[k].text # None
         THEN ExtractText(content, k + 1,
                          [ p    |-> PushOutput(acc.p, content[k].text[1]),
                            text |-> acc.text \o content[k].text[1] ])
         ELSE ExtractText(content, k + 1, acc)

\* "Extract session ID from init events"
ApplyInitAlways(p, event_type, subtype, session_id) ==
    IF event_type = "system" /\ subtype = "init"
    THEN [ p EXCEPT !.session_id = session_id, !.state = "ready" ]
    ELSE p

ApplyInit(p, event_type, subtype, session_id) ==
    IF event_type = "system" /\ subtype = "init" /\ session_id # ""
    THEN [ p EXCEPT !.session_id = session_id, !.state = "ready" ]
    ELSE p

\* "Detect errors"
IsErrorOfResult(event_type, subtype) ==
    event_type = "result" \/ subtype = "error"

IsError(event_type, subtype) ==
    (event_type = "result" \/ subtype = "error") /\ subtype = "error"

\* process_raw_event: the parser after the event, and the ParsedEvent.
\* The counters are u32; the 2^32 events that overflow them lie beyond
\* every run explored here (and beyond the integers of the checker).
ProcessRawEvent(p, raw, t) ==
    LET event_type == UnwrapOr(raw.event_type, "")
        subtype    == UnwrapOr(raw.subtype, "")
        session_id == UnwrapOr(raw.session_id, "")
        p1 == ApplyInit(p, event_type, subtype, session_id)
        p2 == IF event_type = "assistant"
              THEN [ p1 EXCEPT !.state = "working" ] ELSE p1
        ex == IF event_type = "assistant" /\ raw.message # None
              THEN ExtractText(raw.message[1], 1, [ p |-> p2, text |-> << >> ])
              ELSE [ p |-> p2, text |-> << >> ]
        is_error == IsError(event_type, subtype)
        p3 == IF is_error
              THEN [ ex.p EXCEPT !.error_count = @ + 1 ] ELSE ex.p
        p4 == [ p3 EXCEPT !.total_events = @ + 1 ]
    IN [ p     |-> p4,
         event |-> [ event_type |-> event_type,
                     subtype    |-> subtype,
                     session_id |-> session_id,
                     text       |-> ex.text,
                     is_error   |-> is_error,
                     timestamp  |-> t ] ]

\* parse_line: the parser after the call, and the Option<ParsedEvent> returned.
ParseLineStampFirst(p, line, t) ==
    LET trimmed == Trim(line)
        p1 == [ p EXCEPT !.last_event_at = t ]
    IN IF trimmed = << >> THEN [ p |-> p1, ret |-> None ]
       ELSE LET raw == Decode(trimmed)
            IN IF raw # None
               THEN LET r == ProcessRawEvent(p1, raw[1], t)
                    IN [ p |-> PushEvent(r.p, r.event), ret |-> Some(r.event) ]
               ELSE [ p |-> PushOutput(p1, trimmed), ret |-> None ]

ParseLine(p, line, t) ==
    LET trimmed == Trim(line)
    IN IF trimmed = << >> THEN [ p |-> p, ret |-> None ]
       ELSE LET p1  == [ p EXCEPT !.last_event_at = t ]
                raw == Decode(trimmed)
            IN IF raw # None
               THEN LET r == ProcessRawEvent(p1, raw[1], t)
                    IN [ p |-> PushEvent(r.p, r.event), ret |-> Some(r.event) ]
               ELSE [ p |-> PushOutput(p1, trimmed), ret |-> None ]

\* str::split('\n'): the segments between line feeds, at least one.
RECURSIVE SplitLF(_)
SplitLF(s) ==
    IF \E i \in 1 .. Len(s) : s[i] = LF
    THEN LET i == CHOOSE k \in 1 .. Len(s) :
                    s[k] = LF /\ \A m \in 1 .. k - 1 : s[m] # LF
         IN << SubSeq(s, 1, i - 1) >> \o SplitLF(SubSeq(s, i + 1, Len(s)))
    ELSE << s >>

\* The loop of parse_batch over the complete lines.
RECURSIVE ParseLines(_, _, _, _)
ParseLines(lines, k, t, acc) ==
    IF k > Len(lines) THEN acc
    ELSE LET r == ParseLine(acc.p, lines[k], t)
         IN ParseLines(lines, k + 1, t,
                       [ p   |-> r.p,
                         ret |-> IF r.ret # None THEN Append(acc.ret, r.ret[1])
                                 ELSE acc.ret ])

\* "Prepend any leftover data from previous chunk"
BatchDataNoCarry(p, chunk) == chunk

BatchData(p, chunk) ==
    IF p.line_buffer = << >> THEN chunk ELSE p.line_buffer \o chunk

\* parse_batch: the parser after the call, and the events returned.
ParseBatch(p, chunk, t) ==
    LET data  == BatchData(p, chunk)
        p1    == [ p EXCEPT !.line_buffer = << >> ]
        lines == SplitLF(data)
        last  == lines[Len(lines)]
        p2    == IF last # << >> THEN [ p1 EXCEPT !.line_buffer = last ] ELSE p1
    IN ParseLines(SubSeq(lines, 1, Len(lines) - 1), 1, t, [ p |-> p2, ret |-> << >> ])

\* ---- inputs ----

InitLine == << "{", "T:system", "S:init", "I:s1", "}" >>

AssistantLine == << "{", "T:assistant", "M:hi", "}" >>

ErrorLine == << "{", "T:result", "S:error", "}" >>

\* Lines given to parse_line.
LineInputs ==
    { InitLine, AssistantLine, ErrorLine,
      << "{", "T:system", "S:init", "}" >>,
      << "{", "T:system", "S:init", "I:", "}" >>,
      << "{", "I:s1", "M:a+b", "T:assistant", "}" >>,
      << "{", "T:result", "I:s1", "}" >>,
      << "{", "T:user", "S:error", "}" >>,
      << "{", "}" >>,
      << SP, "{", "S:init", "}", SP >>,
      << "{", "T:system", "T:assistant", "}" >>,
      << "{", "T:assistant" >>,
      << "x", SP, "x" >>,
      << SP, "x", LF >>,
      << SP >>,
      << >> }

\* Chunks given to parse_batch.
ChunkInputs ==
    { InitLine \o << LF >> \o AssistantLine \o << LF, "x", LF >>,
      << "{", "T:assistant" >>,
      << "M:hi", "}", LF, "x" >>,
      << "x", LF >> \o ErrorLine \o << LF >>,
      << LF >>,
      << >> }

\* limit arguments of get_recent_output: Option<u32>.
RecentLimitInputs == { None, Some(1) }

DEFAULT_RECENT_LIMIT == 100

\* Steps of the wall clock between calls, in milliseconds.
TickInputs == { 1, HEALTH_TIMEOUT_MS }

\* get_health_signal
HealthSignalByTimeOnly(p, t) ==
    LET ms_since == IF p.last_event_at > 0 THEN t - p.last_event_at ELSE 0
    IN [ state               |-> p.state,
         ms_since_last_event |-> ms_since,
         error_count         |-> p.error_count,
         total_events        |-> p.total_events,
         is_healthy          |-> (ms_since < HEALTH_TIMEOUT_MS) ]

HealthSignal(p, t) ==
    LET ms_since == IF p.last_event_at > 0 THEN t - p.last_event_at ELSE 0
    IN [ state               |-> p.state,
         ms_since_last_event |-> ms_since,
         error_count         |-> p.error_count,
         total_events        |-> p.total_events,
         is_healthy          |-> (ms_since < HEALTH_TIMEOUT_MS \/ p.state # "working") ]

\* get_recent_output
RecentOutput(p, limitOpt) ==
    LastN(p.output_lines, UnwrapOr(limitOpt, DEFAULT_RECENT_LIMIT))

\* The output lines one input line carries: the trimmed line itself when
\* it does not decode as an event, the text elements of the message when it
\* decodes as an assistant event.
RECURSIVE TextsOf(_, _)
TextsOf(content, k) ==
    IF k > Len(content) THEN << >>
    ELSE IF content[k].content_type = Some("text") /\ content[k].text # None
         THEN << content[k].text[1] >> \o TextsOf(content, k + 1)
         ELSE TextsOf(content, k + 1)

LinesCarried(line) ==
    LET trimmed == Trim(line)
        raw == Decode(trimmed)
    IN IF trimmed = << >> THEN << >>
       ELSE IF raw = None THEN << trimmed >>
       ELSE IF raw[1].event_type = Some("assistant") /\ raw[1].message # None
            THEN TextsOf(raw[1].message[1], 1)
       ELSE << >>

\* The complete lines parse_batch finds in the carry-over and the chunk.
CompleteLines(p, chunk) ==
    LET lines == SplitLF(BatchData(p, chunk))
    IN SubSeq(lines, 1, Len(lines) - 1)

RECURSIVE BatchCarried(_, _)
BatchCarried(lines, k) ==
    IF k > Len(lines) THEN << >>
    ELSE LinesCarried(lines[k]) \o BatchCarried(lines, k + 1)

LogInit ==
    /\ parser = NewParser
    /\ logNow = 1
    /\ logCall = [ op |-> "new" ]
    /\ logRet = << >>
    /\ nLogSteps = 0
    /\ arrivedEvents = << >>
    /\ arrivedLines = << >>
    /\ lastLineAt = None

LogStepped ==
    /\ nLogSteps < MaxLogSteps
    /\ nLogSteps' = nLogSteps + 1
    /\ UNCHANGED notLogVars

\* The wall clock advances between calls.
LogTick(d) ==
    /\ LogStepped
    /\ logNow' = logNow + d
    /\ UNCHANGED << parser, logCall, logRet, arrivedEvents, arrivedLines,
                    lastLineAt >>

parse_line(line) ==
    /\ LogStepped
    /\ LET r == ParseLine(parser, line, logNow)
       IN /\ parser' = r.p
          /\ logRet' = r.ret
    /\ logCall' = [ op |-> "parse_line", arg |-> line, before |-> parser ]
    /\ arrivedEvents' = arrivedEvents \o logRet'
    /\ arrivedLines' = arrivedLines \o LinesCarried(line)
    /\ lastLineAt' = IF Trim(line) # << >> THEN Some(logNow) ELSE lastLineAt
    /\ UNCHANGED logNow

parse_batch(chunk) ==
    /\ LogStepped
    /\ LET r == ParseBatch(parser, chunk, logNow)
       IN /\ parser' = r.p
          /\ logRet' = r.ret
    /\ logCall' = [ op |-> "parse_batch", arg |-> chunk, before |-> parser ]
    /\ arrivedEvents' = arrivedEvents \o logRet'
    /\ arrivedLines' = arrivedLines \o BatchCarried(CompleteLines(parser, chunk), 1)
    /\ lastLineAt' = IF \E l \in Range(CompleteLines(parser, chunk)) : Trim(l) # << >>
                     THEN Some(logNow) ELSE lastLineAt
    /\ UNCHANGED logNow

get_health_signal ==
    /\ LogStepped
    /\ logRet' = HealthSignal(parser, logNow)
    /\ logCall' = [ op |-> "get_health_signal", before |-> parser, at |-> logNow ]
    /\ UNCHANGED << parser, logNow, arrivedEvents, arrivedLines, lastLineAt >>

get_recent_output(limitOpt) ==
    /\ LogStepped
    /\ logRet' = RecentOutput(parser, limitOpt)
    /\ logCall' = [ op |-> "get_recent_output", arg |-> limitOpt ]
    /\ UNCHANGED << parser, logNow, arrivedEvents, arrivedLines, lastLineAt >>

LogNext ==
    \/ \E d \in TickInputs : LogTick(d)
    \/ \E l \in LineInputs : parse_line(l)
    \/ \E c \in ChunkInputs : parse_batch(c)
    \/ get_health_signal
    \/ \E l \in RecentLimitInputs : get_recent_output(l)

\* ---- one stream fed to parse_batch in consecutive chunks ----

\* The pieces input streams are made of.
Pieces ==
    { << LF >>, << SP >>, << "x" >>, InitLine, AssistantLine, ErrorLine }

\* The streams made of at most n pieces.
RECURSIVE StreamsOf(_)
StreamsOf(n) ==
    IF n = 0 THEN { << >> }
    ELSE LET shorter == StreamsOf(n - 1)
         IN shorter \cup { s \o p : s \in shorter, p \in Pieces }

ChunkInit ==
    /\ whole \in StreamsOf(MaxPieces)
    /\ rest = whole
    /\ chunkParser = NewParser
    /\ chunkOut = << >>
    /\ chunkNow = 1
    /\ cutMidLine = FALSE

\* The next k characters of the stream go to parse_batch as one chunk.
FeedChunk(k) ==
    /\ LET r == ParseBatch(chunkParser, SubSeq(rest, 1, k), chunkNow)
       IN /\ chunkParser' = r.p
          /\ chunkOut' = chunkOut \o r.ret
          /\ cutMidLine' = (cutMidLine \/ (k < Len(rest) /\ r.p.line_buffer # << >>))
    /\ rest' = SubSeq(rest, k + 1, Len(rest))
    /\ UNCHANGED << whole, chunkNow >>
    /\ UNCHANGED notChunkVars

\* Time passes between two chunks.
ChunkTick ==
    /\ chunkNow < MaxChunkTime
    /\ chunkNow' = chunkNow + 1
    /\ UNCHANGED << whole, rest, chunkParser, chunkOut, cutMidLine >>
    /\ UNCHANGED notChunkVars

ChunkNext ==
    \/ \E k \in 0 .. Len(rest) : FeedChunk(k)
    \/ ChunkTick

(***************************************************************************)
(* SearchIndex (crates/search/src/lib.rs)                                  *)
(*                                                                         *)
(* The crate wraps a full-text index library.  The library is modelled by  *)
(* the contract the crate relies on: operations handed to the writer carry *)
(* increasing operation stamps and take effect at the next commit; a       *)
(* delete by term removes the documents added before it whose field        *)
(* holds that term; a reader sees the last commit it loaded.  A TEXT       *)
(* field is indexed through the default tokenizer: the text is split       *)
(* at every character that is not alphanumeric and each token is           *)
(* lower-cased.                                                            *)
(***************************************************************************)

Callers == { "c1", "c2" }

\* SessionMetadata given to index_session: session_id and content, as
\* sequences of characters.  timestamp, model and project_path are stored
\* and copied into the results; no operation decides anything on them.
Sessions ==
    { [ session_id |-> << "d", "1" >>,      content |-> << "u" >> ],
      [ session_id |-> << "D", "1" >>,      content |-> << "v" >> ],
      [ session_id |-> << "d", "-", "1" >>, content |-> << "u", " ", "V" >> ] }

\* Arguments of delete_session.
DeleteInputs == { m.session_id : m \in Sessions }

\* Arguments of search.
QueryInputs == { << "u" >>, << "v" >> }

SearchLimitInputs == { None, Some(1) }

DEFAULT_SEARCH_LIMIT == 20

SNIPPET_CHARS == 200

IsAlphanumeric(c) == c \in { "d", "D", "u", "v", "V", "1" }

ToLowercase(c) ==
    CASE c = "D" -> "d"
      [] c = "V" -> "v"
      [] OTHER   -> c

LowerCaser(token) == [ i \in 1..Len(token) |-> ToLowercase(token[i]) ]

\* The tokens of text from position i on; cur is the token being read.
RECURSIVE SimpleTokenizer(_, _, _, _)
SimpleTokenizer(text, i, cur, acc) ==
    LET closed == IF cur = << >> THEN acc ELSE Append(acc, cur)
    IN IF i > Len(text) THEN closed
       ELSE IF IsAlphanumeric(text[i])
            THEN SimpleTokenizer(text, i + 1, Append(cur, text[i]), acc)
            ELSE SimpleTokenizer(text, i + 1, << >>, closed)

\* What a TEXT field indexes for a text: its tokens, lower-cased.
Tokens(text) ==
    LET raw == SimpleTokenizer(text, 1, << >>, << >>)
    IN [ i \in 1..Len(raw) |-> LowerCaser(raw[i]) ]

Terms(text) == Range(Tokens(text))

\* Term::from_field_text builds the term from the text as given: the text
\* does not go through the tokenizer of the field.
FromFieldText(text) == text

\* IndexWriter::add_document and IndexWriter::delete_term: the operation
\* joins the uncommitted ones with the next operation stamp.
AddDocument(pend, metadata, stamp) ==
    pend \cup { [ kind |-> "add", session_id |-> metadata.session_id,
                  content |-> metadata.content, opstamp |-> stamp ] }

DeleteTerm(pend, term, stamp) ==
    pend \cup { [ kind |-> "delete", session_id |-> term,
                  content |-> << >>, opstamp |-> stamp ] }

\* The document an add operation adds; its address is its stamp.
Document(op) ==
    [ session_id |-> op.session_id, content |-> op.content,
      opstamp |-> op.opstamp ]

\* A delete by term removes a document added before it whose session_id
\* field holds the term.
TermDeletes(op, doc) ==
    /\ op.kind = "delete"
    /\ doc.opstamp < op.opstamp
    /\ op.session_id \in Terms(doc.session_id)

\* IndexWriter::commit: the documents after the uncommitted operations.
Commit(comm, pend) ==
    LET docs == comm \cup { Document(p) : p \in { q \in pend : q.kind = "add" } }
    IN { d \in docs : \A p \in pend : ~TermDeletes(p, d) }

ReloadedSegmentsUncommitted(comm, pend) == Commit(comm, pend)

\* IndexReader::reload: the reader loads the last commit.
ReloadedSegments(comm, pend) == comm

\* The score of a document for the terms of a query.  The library ranks by
\* BM25, which is positive for a document holding a term of the query and
\* grows with the occurrences; the model counts the occurrences.
Score(doc, qterms) ==
    LET toks == Tokens(doc.content)
    IN Cardinality({ i \in 1..Len(toks) : toks[i] \in qterms })

\* TopDocs::with_limit(limit): the best limit documents, best first.
RECURSIVE TopDocs(_, _, _, _)
TopDocs(cands, qterms, limit, acc) ==
    IF cands = {} \/ Len(acc) >= limit THEN acc
    ELSE LET best == CHOOSE d \in cands : \A o \in cands :
                        \/ Score(d, qterms) > Score(o, qterms)
                        \/ /\ Score(d, qterms) = Score(o, qterms)
                           /\ d.opstamp <= o.opstamp
         IN TopDocs(cands \ { best }, qterms, limit,
                    Append(acc, [ score |-> Score(best, qterms),
                                  doc_address |-> best.opstamp ]))

Take(s, n) == SubSeq(s, 1, Min(n, Len(s)))

\* The SearchResult built from one hit.
SearchResultOf(snap, hit) ==
    LET doc == CHOOSE d \in snap : d.opstamp = hit.doc_address
    IN [ session_id |-> doc.session_id,
         score      |-> hit.score,
         snippet    |-> Take(doc.content, SNIPPET_CHARS) ]

Idle == [ op |-> "idle" ]

NotSearch == [ op |-> "other" ]

SearchInit ==
    /\ pending = {}
    /\ committed = {}
    /\ snapshot = {}
    /\ opstamp = 0
    /\ writer = None
    /\ pc = [ c \in Callers |-> Idle ]
    /\ srchCall = NotSearch
    /\ top_docs = << >>
    /\ srchRet = << >>
    /\ commitStamp = 0
    /\ snapStamp = 0
    /\ indexed = {}
    /\ deleteCalls = {}
    /\ commits = 0
    /\ poisoned = FALSE
    /\ lockFailures = 0

LockAvailableAlways(holder) == TRUE

\* RwLock::write returns when no other guard is alive.
LockAvailable(holder) == holder = None

\* Whether RwLock::write returns Err: the lock is poisoned, and nothing in
\* the crate clears the poison.
WriteFails(isPoisoned) == isPoisoned

\* self.writer.write().map_err(..)?: the caller waits for the lock; it
\* enters the critical section of its call, or, the lock being poisoned,
\* the call returns "Failed to acquire writer lock" with the guard dropped.
Acquire(c, call) ==
    /\ pc[c].op = "idle"
    /\ LockAvailable(writer)
    /\ IF WriteFails(poisoned)
       THEN /\ lockFailures < MaxLockFailures
            /\ lockFailures' = lockFailures + 1
            /\ UNCHANGED << writer, pc, poisoned >>
       ELSE /\ writer' = Some(c)
            /\ pc' = [ pc EXCEPT ![c] = call ]
            /\ UNCHANGED << poisoned, lockFailures >>

\* The guard is dropped when the call returns.
Release(c) ==
    /\ writer' = None
    /\ pc' = [ pc EXCEPT ![c] = Idle ]
    /\ UNCHANGED << poisoned, lockFailures >>

\* A step that is no search and no stats call.
SrchQuiet ==
    /\ srchCall' = NotSearch
    /\ top_docs' = << >>
    /\ srchRet' = << >>
    /\ UNCHANGED notSrchVars

index_session_acquire(c, metadata) ==
    /\ opstamp < MaxOpstamp
    /\ Acquire(c, [ op |-> "index_session", metadata |-> metadata ])
    /\ SrchQuiet
    /\ UNCHANGED << pending, committed, snapshot, opstamp, commitStamp,
                    snapStamp, indexed, deleteCalls, commits >>

index_session(c) ==
    /\ pc[c].op = "index_session"
    /\ pending' = AddDocument(pending, pc[c].metadata, opstamp)
    /\ indexed' = indexed \cup
           { [ session_id |-> pc[c].metadata.session_id,
               content |-> pc[c].metadata.content, opstamp |-> opstamp ] }
    /\ opstamp' = opstamp + 1
    /\ Release(c)
    /\ SrchQuiet
    /\ UNCHANGED << committed, snapshot, commitStamp, snapStamp,
                    deleteCalls, commits >>

commit_acquire(c) ==
    /\ commits < MaxCommits
    /\ Acquire(c, [ op |-> "commit" ])
    /\ SrchQuiet
    /\ UNCHANGED << pending, committed, snapshot, opstamp, commitStamp,
                    snapStamp, indexed, deleteCalls, commits >>

commit(c) ==
    /\ pc[c].op = "commit"
    /\ committed' = Commit(committed, pending)
    /\ pending' = {}
    /\ commitStamp' = opstamp
    /\ commits' = commits + 1
    /\ Release(c)
    /\ SrchQuiet
    /\ UNCHANGED << snapshot, opstamp, snapStamp, indexed, deleteCalls >>

delete_session_acquire(c, session_id) ==
    /\ opstamp < MaxOpstamp
    /\ Acquire(c, [ op |-> "delete_session", session_id |-> session_id ])
    /\ SrchQuiet
    /\ UNCHANGED << pending, committed, snapshot, opstamp, commitStamp,
                    snapStamp, indexed, deleteCalls, commits >>

delete_session(c) ==
    /\ pc[c].op = "delete_session"
    /\ pending' = DeleteTerm(pending, FromFieldText(pc[c].session_id), opstamp)
    /\ deleteCalls' = deleteCalls \cup
           { [ session_id |-> pc[c].session_id, opstamp |-> opstamp ] }
    /\ opstamp' = opstamp + 1
    /\ Release(c)
    /\ SrchQuiet
    /\ UNCHANGED << committed, snapshot, commitStamp, snapStamp, indexed,
                    commits >>

reload(c) ==
    /\ pc[c].op = "idle"
    /\ snapshot' = ReloadedSegments(committed, pending)
    /\ snapStamp' = commitStamp
    /\ SrchQuiet
    /\ UNCHANGED << pending, committed, opstamp, writer, pc, poisoned, lockFailures, commitStamp,
                    indexed, deleteCalls, commits >>

\* ReloadPolicy::OnCommitWithDelay: some time after a commit the reader
\* reloads by itself.
OnCommitWithDelay ==
    /\ snapStamp # commitStamp
    /\ snapshot' = ReloadedSegments(committed, pending)
    /\ snapStamp' = commitStamp
    /\ SrchQuiet
    /\ UNCHANGED << pending, committed, opstamp, writer, pc, poisoned, lockFailures, commitStamp,
                    indexed, deleteCalls, commits >>

search(c, query, limitOpt) ==
    LET limit  == UnwrapOr(limitOpt, DEFAULT_SEARCH_LIMIT)
        qterms == Terms(query)
        hits   == TopDocs({ d \in snapshot : Score(d, qterms) > 0 },
                          qterms, limit, << >>)
    IN /\ pc[c].op = "idle"
       /\ srchCall' = [ op |-> "search", caller |-> c, query |-> query,
                        limit |-> limit ]
       /\ top_docs' = hits
       /\ srchRet' = [ i \in 1..Len(hits) |-> SearchResultOf(snapshot, hits[i]) ]
       /\ UNCHANGED << pending, committed, snapshot, opstamp, writer, pc, poisoned, lockFailures,
                       commitStamp, snapStamp, indexed, deleteCalls, commits >>
       /\ UNCHANGED notSrchVars

stats(c) ==
    /\ pc[c].op = "idle"
    /\ srchCall' = [ op |-> "stats", caller |-> c ]
    /\ top_docs' = << >>
    /\ srchRet' = [ document_count |-> Cardinality(snapshot) ]
    /\ UNCHANGED << pending, committed, snapshot, opstamp, writer, pc, poisoned, lockFailures,
                    commitStamp, snapStamp, indexed, deleteCalls, commits >>
    /\ UNCHANGED notSrchVars

\* A call panics inside its critical section: the guard is dropped while
\* the thread unwinds, which poisons the lock.  The writer operation the
\* call was about to make is not made.
panic_in_writer(c) ==
    /\ pc[c].op \in { "index_session", "commit", "delete_session" }
    /\ ~poisoned
    /\ poisoned' = TRUE
    /\ writer' = None
    /\ pc' = [ pc EXCEPT ![c] = Idle ]
    /\ UNCHANGED lockFailures
    /\ SrchQuiet
    /\ UNCHANGED << pending, committed, snapshot, opstamp, commitStamp,
                    snapStamp, indexed, deleteCalls, commits >>

SrchNext ==
    \/ \E c \in Callers, m \in Sessions : index_session_acquire(c, m)
    \/ \E c \in Callers : index_session(c)
    \/ \E c \in Callers : commit_acquire(c)
    \/ \E c \in Callers : commit(c)
    \/ \E c \in Callers, id \in DeleteInputs : delete_session_acquire(c, id)
    \/ \E c \in Callers : delete_session(c)
    \/ \E c \in Callers : reload(c)
    \/ OnCommitWithDelay
    \/ \E c \in Callers, q \in QueryInputs, l \in SearchLimitInputs : search(c, q, l)
    \/ \E c \in Callers : stats(c)

\* The same calls on an index whose callers may panic.
SrchLockNext ==
    \/ \E c \in Callers, m \in Sessions : index_session_acquire(c, m)
    \/ \E c \in Callers : index_session(c)
    \/ \E c \in Callers : commit_acquire(c)
    \/ \E c \in Callers : commit(c)
    \/ \E c \in Callers, id \in DeleteInputs : delete_session_acquire(c, id)
    \/ \E c \in Callers : delete_session(c)
    \/ \E c \in Callers : reload(c)
    \/ OnCommitWithDelay
    \/ \E c \in Callers, q \in QueryInputs, l \in SearchLimitInputs : search(c, q, l)
    \/ \E c \in Callers : stats(c)
    \/ \E c \in Callers : panic_in_writer(c)

(***************************************************************************)
(* DagSolver::topological_sort (crates/dag/src/lib.rs)                     *)
(*                                                                         *)
(* The input is the vector of DagNode decoded from nodes_json.  A node is  *)
(* a record of id, priority and depends_on; estimated_duration is not read *)
(* by the sort.                                                            *)
(***************************************************************************)

NodeIds == { "a", "b", "c" }

NodePriorityInputs == { None, Some(1) }

\* depends_on: absent, one dependency, two dependencies one of which is
\* named twice, and a dependency on an id that no node has.
DependsOnInputs ==
    { None, Some(<< "a" >>), Some(<< "b" >>), Some(<< "a", "b", "a" >>),
      Some(<< "c", "z" >>) }

DagNodes ==
    [ id : NodeIds, priority : NodePriorityInputs, depends_on : DependsOnInputs ]

NodeLists(n) == UNION { [ 1..k -> DagNodes ] : k \in 0..n }

DependsOn(node) == UnwrapOr(node.depends_on, << >>)

\* The edges in the order build_graph meets them: node by node, dependency
\* by dependency.
RECURSIVE Edges(_, _)
Edges(ns, i) ==
    IF i > Len(ns) THEN << >>
    ELSE [ j \in 1..Len(DependsOn(ns[i])) |->
             [ dep |-> DependsOn(ns[i])[j], id |-> ns[i].id ] ]
         \o Edges(ns, i + 1)

IdsOf(ns) == { ns[i].id : i \in 1..Len(ns) }

\* adj: dependency -> its dependents; an id that is only depended on gets
\* an entry too.
Adjacency(ns) ==
    LET edges == Edges(ns, 1)
        keys  == IdsOf(ns) \cup { edges[k].dep : k \in 1..Len(edges) }
    IN [ x \in keys |->
           LET out == SelectSeq(edges, LAMBDA e : e.dep = x)
           IN [ k \in 1..Len(out) |-> out[k].id ] ]

\* in_degree: one per entry of depends_on, whatever the entry names.
InDegree(ns) ==
    LET edges == Edges(ns, 1)
    IN [ x \in IdsOf(ns) |-> Len(SelectSeq(edges, LAMBDA e : e.id = x)) ]

\* node_map: the last node of an id replaces the earlier ones.
NodeMap(ns) ==
    [ x \in IdsOf(ns) |->
        ns[CHOOSE i \in 1..Len(ns) :
              /\ ns[i].id = x
              /\ \A j \in (i + 1)..Len(ns) : ns[j].id # x] ]

ReadyEarly(deg) == deg <= 1

\* A node enters the queue when its in-degree is zero.
Ready(deg) == deg = 0

Decrement(deg) == deg - 1

PriorityOf(nm, id) ==
    IF id \in DOMAIN nm THEN UnwrapOr(nm[id].priority, 0) ELSE 0

\* level.sort_by(pb.cmp(&pa)): a stable sort, priority descending.
RECURSIVE InsertByPriority(_, _, _)
InsertByPriority(sorted, id, nm) ==
    IF sorted = << >> THEN << id >>
    ELSE IF PriorityOf(nm, Head(sorted)) >= PriorityOf(nm, id)
         THEN << Head(sorted) >> \o InsertByPriority(Tail(sorted), id, nm)
         ELSE << id >> \o sorted

RECURSIVE SortLevel(_, _, _, _)
SortLevel(level, k, nm, acc) ==
    IF k > Len(level) THEN acc
    ELSE SortLevel(level, k + 1, nm, InsertByPriority(acc, level[k], nm))

\* The inner loop over the neighbours of an emitted node; st holds in_deg
\* and queue.
RECURSIVE Relax(_, _, _)
Relax(neighbors, j, st) ==
    IF j > Len(neighbors) THEN st
    ELSE LET n == neighbors[j]
         IN IF n \in DOMAIN st.in_deg
            THEN LET deg == Decrement(st.in_deg[n])
                 IN Relax(neighbors, j + 1,
                          [ st EXCEPT !.in_deg = [ @ EXCEPT ![n] = deg ],
                                      !.queue  = IF Ready(deg)
                                                 THEN Append(@, n) ELSE @ ])
            ELSE Relax(neighbors, j + 1, st)

\* The loop over the ids of one level; st holds in_deg, queue and order.
RECURSIVE EmitLevel(_, _, _, _)
EmitLevel(level, k, a, st) ==
    IF k > Len(level) THEN st
    ELSE LET id   == level[k]
             emit == [ st EXCEPT !.order = Append(@, id) ]
         IN EmitLevel(level, k + 1, a,
                      IF id \in DOMAIN a THEN Relax(a[id], 1, emit) ELSE emit)

\* Nothing was sorted yet.
DagStart ==
    /\ adj = << >>
    /\ in_deg = << >>
    /\ node_map = << >>
    /\ queue = << >>
    /\ order = << >>
    /\ levels = << >>
    /\ dagPc = "start"
    /\ dagRet = None

DagInit ==
    /\ nodes \in NodeLists(MaxNodes)
    /\ DagStart

\* build_graph, then the queue is seeded with the nodes of in-degree zero
\* in the iteration order of the in-degree map, which is unspecified.
topological_sort_seed ==
    /\ dagPc = "start"
    /\ adj' = Adjacency(nodes)
    /\ in_deg' = InDegree(nodes)
    /\ node_map' = NodeMap(nodes)
    /\ \E seed \in Orders({ x \in IdsOf(nodes) : Ready(InDegree(nodes)[x]) }) :
          queue' = seed
    /\ dagPc' = "loop"
    /\ UNCHANGED << nodes, order, levels, dagRet >>
    /\ UNCHANGED notDagVars

\* One turn of the while loop: the queue is drained into a level, the
\* level is sorted and emitted.
topological_sort_level ==
    /\ dagPc = "loop"
    /\ queue # << >>
    /\ LET level == SortLevel(queue, 1, node_map, << >>)
           st    == EmitLevel(level, 1, adj,
                              [ in_deg |-> in_deg, queue |-> << >>,
                                order |-> order ])
       IN /\ in_deg' = st.in_deg
          /\ queue' = st.queue
          /\ order' = st.order
          /\ levels' = Append(levels, level)
    /\ UNCHANGED << nodes, adj, node_map, dagPc, dagRet >>
    /\ UNCHANGED notDagVars

topological_sort_return ==
    /\ dagPc = "loop"
    /\ queue = << >>
    /\ dagRet' = Some([ order      |-> order,
                        levels     |-> levels,
                        is_valid   |-> Len(order) = Len(nodes),
                        node_count |-> Len(nodes) ])
    /\ dagPc' = "done"
    /\ UNCHANGED << nodes, adj, in_deg, node_map, queue, order, levels >>
    /\ UNCHANGED notDagVars

DagNext ==
    \/ topological_sort_seed
    \/ topological_sort_level
    \/ topological_sort_return

(***************************************************************************)
(* DagSolver: whole calls (crates/dag/src/lib.rs)                          *)
(*                                                                         *)
(* topological_sort, detect_cycles, critical_path and get_ready_nodes are  *)
(* pure functions of their arguments: every call decodes nodes_json again. *)
(* One input, graph, is fixed at the start and each function is called on  *)
(* it once, in any order; each call stores what it returned.               *)
(***************************************************************************)

\* The whole of topological_sort's while loop; st holds in_deg, queue,
\* order and levels.
RECURSIVE KahnLoop(_, _, _)
KahnLoop(a, nm, st) ==
    IF st.queue = << >> THEN st
    ELSE LET level == SortLevel(st.queue, 1, nm, << >>)
             next  == EmitLevel(level, 1, a, [ st EXCEPT !.queue = << >> ])
         IN KahnLoop(a, nm, [ next EXCEPT !.levels = Append(@, level) ])

\* topological_sort from build_graph to the TopologicalResult; seed is the
\* order in which the in-degree map yielded the nodes of in-degree zero.
TopologicalSort(ns, seed) ==
    LET st == KahnLoop(Adjacency(ns), NodeMap(ns),
                       [ in_deg |-> InDegree(ns), queue |-> seed,
                         order |-> << >>, levels |-> << >> ])
    IN [ order      |-> st.order,
         levels     |-> st.levels,
         is_valid   |-> Len(st.order) = Len(ns),
         node_count |-> Len(ns) ]

Seeds(ns) == Orders({ x \in IdsOf(ns) : Ready(InDegree(ns)[x]) })

\* path.iter().position(|n| n == neighbor).unwrap_or(0), as an index from 1.
CycleStart(path, neighbor) ==
    IF \E i \in 1..Len(path) : path[i] = neighbor
    THEN CHOOSE i \in 1..Len(path) :
            /\ path[i] = neighbor
            /\ \A j \in 1..(i - 1) : path[j] # neighbor
    ELSE 1

OnStackOrDone(st, neighbor) == neighbor \in st.gray \cup st.black

\* gray.contains(neighbor): the neighbour is on the current DFS path.
OnStack(st, neighbor) == neighbor \in st.gray

\* dfs and the loop over the neighbours of its node; st holds white, gray,
\* black, path, cycle_nodes and cycles.
RECURSIVE Dfs(_, _, _)
RECURSIVE DfsNeighbors(_, _, _, _)
Dfs(node, a, st) ==
    LET entered  == [ st EXCEPT !.white = @ \ { node },
                                !.gray  = @ \cup { node },
                                !.path  = Append(@, node) ]
        explored == IF node \in DOMAIN a
                    THEN DfsNeighbors(a[node], 1, a, entered)
                    ELSE entered
    IN [ explored EXCEPT !.path  = SubSeq(@, 1, Len(@) - 1),
                         !.gray  = @ \ { node },
                         !.black = @ \cup { node } ]

DfsNeighbors(neighbors, j, a, st) ==
    IF j > Len(neighbors) THEN st
    ELSE LET neighbor == neighbors[j]
         IN IF OnStack(st, neighbor)
            THEN LET cycle == SubSeq(st.path, CycleStart(st.path, neighbor),
                                     Len(st.path))
                 IN DfsNeighbors(neighbors, j + 1, a,
                        [ st EXCEPT !.cycle_nodes = @ \cup Range(cycle),
                                    !.cycles = Append(@, cycle) ])
            ELSE IF neighbor \in st.white
                 THEN DfsNeighbors(neighbors, j + 1, a, Dfs(neighbor, a, st))
                 ELSE DfsNeighbors(neighbors, j + 1, a, st)

\* for node in start_nodes { if white.contains(&node) { dfs(..) } }
RECURSIVE DfsFrom(_, _, _, _)
DfsFrom(start_nodes, k, a, st) ==
    IF k > Len(start_nodes) THEN st
    ELSE DfsFrom(start_nodes, k + 1, a,
                 IF start_nodes[k] \in st.white
                 THEN Dfs(start_nodes[k], a, st) ELSE st)

\* detect_cycles; start_nodes is the order in which the white set was
\* iterated.
DetectCycles(ns, start_nodes) ==
    LET st == DfsFrom(start_nodes, 1, Adjacency(ns),
                      [ white |-> IdsOf(ns), gray |-> { }, black |-> { },
                        path |-> << >>, cycle_nodes |-> { },
                        cycles |-> << >> ])
    IN [ has_cycles  |-> st.cycles # << >>,
         cycle_nodes |-> st.cycle_nodes,
         cycles      |-> st.cycles ]

\* No function was called on the input yet.
SolverStart ==
    /\ topoRet = None
    /\ cyclesRet = None
    /\ criticalRet = None
    /\ readyRet = None
    /\ rounds = << >>

\* No input was given to the solver.
SolverIdle ==
    /\ graph = << >>
    /\ completed = { }
    /\ SolverStart

topological_sort ==
    /\ topoRet = None
    /\ \E seed \in Seeds(graph) :
          topoRet' = Some(TopologicalSort(graph, seed))
    /\ UNCHANGED << graph, completed, cyclesRet, criticalRet, readyRet, rounds >>
    /\ UNCHANGED notSolverVars

\* cycle_nodes.into_iter().collect(): the vector lists the set in an
\* unspecified order, and is held as the set.
detect_cycles ==
    /\ cyclesRet = None
    /\ \E start_nodes \in Orders(IdsOf(graph)) :
          cyclesRet' = Some(DetectCycles(graph, start_nodes))
    /\ UNCHANGED << graph, completed, topoRet, criticalRet, readyRet, rounds >>
    /\ UNCHANGED notSolverVars

\* The inputs of the cycle checks: nodes with no dependency, one dependency
\* (itself or another node), two dependencies, and a dependency on an id
\* that no node has.  Priorities and durations are not read.
CycleDependsOnInputs ==
    { None, Some(<< "a" >>), Some(<< "b" >>), Some(<< "c" >>),
      Some(<< "a", "c" >>), Some(<< "z" >>) }

CycleNodes ==
    [ id : NodeIds, priority : { None }, depends_on : CycleDependsOnInputs,
      estimated_duration : { None } ]

CyclesInit ==
    /\ \E k \in 0..MaxGraph : graph \in [ 1..k -> CycleNodes ]
    /\ completed = { }
    /\ SolverStart

CyclesNext ==
    \/ topological_sort
    \/ detect_cycles

(***************************************************************************)
(* critical_path (crates/dag/src/lib.rs)                                   *)
(*                                                                         *)
(* Durations and times are f64.  The model keeps the rounding of binary    *)
(* floating point with a short significand: a value is an integer number   *)
(* of units, and the result of an addition or subtraction is rounded to    *)
(* MantissaBits significant bits, to nearest, ties to even, as IEEE 754    *)
(* does with 53 bits.                                                      *)
(***************************************************************************)

Abs(x) == IF x >= 0 THEN x ELSE -x

RECURSIVE Pow2(_)
Pow2(n) == IF n = 0 THEN 1 ELSE 2 * Pow2(n - 1)

\* The spacing of the representable values around the magnitude m.
RECURSIVE Ulp(_, _)
Ulp(m, q) == IF m < Pow2(MantissaBits) * q THEN q ELSE Ulp(m, 2 * q)

RoundMagnitude(m) ==
    LET q   == Ulp(m, 1)
        lo  == (m \div q) * q
        rem == m - lo
    IN IF 2 * rem < q THEN lo
       ELSE IF 2 * rem > q THEN lo + q
       ELSE IF (lo \div q) % 2 = 0 THEN lo ELSE lo + q

\* Round to nearest representable value, ties to even.
Round(x) == IF x >= 0 THEN RoundMagnitude(x) ELSE -RoundMagnitude(-x)

FAdd(x, y) == Round(x + y)

FSub(x, y) == Round(x - y)

\* node_map.get(id).and_then(|n| n.estimated_duration).unwrap_or(1.0)
DurationOf(nm, id) ==
    IF id \in DOMAIN nm THEN UnwrapOr(nm[id].estimated_duration, 1) ELSE 1

\* map.entry(key).or_insert(value)
OrInsert(map, key, value) ==
    IF key \in DOMAIN map THEN map ELSE map @@ (key :> value)

\* map.get(key).copied().unwrap_or(default)
GetOr(map, key, default) ==
    IF key \in DOMAIN map THEN map[key] ELSE default

\* The forward pass's loop over the neighbours of a node finishing at ef.
RECURSIVE PushEarliest(_, _, _, _)
PushEarliest(neighbors, j, ef, es) ==
    IF j > Len(neighbors) THEN es
    ELSE LET seen == OrInsert(es, neighbors[j], 0)
         IN PushEarliest(neighbors, j + 1, ef,
                IF ef > seen[neighbors[j]]
                THEN [ seen EXCEPT ![neighbors[j]] = ef ] ELSE seen)

\* The forward pass; st holds earliest_start and earliest_finish.
RECURSIVE ForwardPass(_, _, _, _, _)
ForwardPass(ord, k, a, nm, st) ==
    IF k > Len(ord) THEN st
    ELSE LET id == ord[k]
             es == OrInsert(st.earliest_start, id, 0)
             ef == FAdd(es[id], DurationOf(nm, id))
         IN ForwardPass(ord, k + 1, a, nm,
                [ earliest_start  |-> IF id \in DOMAIN a
                                      THEN PushEarliest(a[id], 1, ef, es)
                                      ELSE es,
                  earliest_finish |-> [ x \in DOMAIN st.earliest_finish \cup { id } |->
                                          IF x = id THEN ef
                                          ELSE st.earliest_finish[x] ] ])

\* earliest_finish.values().copied().fold(0.0_f64, f64::max)
FoldMax(values) ==
    IF values = { } THEN 0
    ELSE LET top == CHOOSE v \in values : \A w \in values : w <= v
         IN IF top > 0 THEN top ELSE 0

\* The backward pass's loop over the neighbours of id; lf is latest_finish.
RECURSIVE PullLatest(_, _, _, _, _, _)
PullLatest(neighbors, j, id, total, ls, lf) ==
    IF j > Len(neighbors) THEN lf
    ELSE LET neighbor_ls == GetOr(ls, neighbors[j], total)
             current     == OrInsert(lf, id, total)
         IN PullLatest(neighbors, j + 1, id, total, ls,
                IF neighbor_ls < current[id]
                THEN [ current EXCEPT ![id] = neighbor_ls ] ELSE current)

\* The backward pass over the order reversed; st holds latest_finish and
\* latest_start.
RECURSIVE BackwardPass(_, _, _, _, _, _)
BackwardPass(ord, k, a, nm, total, st) ==
    IF k < 1 THEN st
    ELSE LET id == ord[k]
             lf == OrInsert(st.latest_finish, id, total)
             pulled == IF id \in DOMAIN a
                       THEN PullLatest(a[id], 1, id, total, st.latest_start, lf)
                       ELSE lf
             lf_val == GetOr(pulled, id, total)
             ls_val == FSub(lf_val, DurationOf(nm, id))
         IN BackwardPass(ord, k - 1, a, nm, total,
                [ latest_finish |-> pulled,
                  latest_start  |-> [ x \in DOMAIN st.latest_start \cup { id } |->
                                        IF x = id THEN ls_val
                                        ELSE st.latest_start[x] ] ])

\* slack.abs() < 0.001
IsCritical(slack) == 1000 * Abs(slack) < 1

\* The NodeSlack of every node of the order.
SlackInfo(ord, es, ls) ==
    [ k \in 1..Len(ord) |->
        LET e == GetOr(es, ord[k], 0)
            l == GetOr(ls, ord[k], 0)
        IN [ id |-> ord[k], slack |-> FSub(l, e),
             earliest_start |-> e, latest_start |-> l ] ]

\* if !topo.is_valid { return Err(..) }
TopoValid(topo) == topo.is_valid

\* critical_path, given the order in which its call of topological_sort
\* seeded the queue.
CriticalPath(ns, seed) ==
    LET a    == Adjacency(ns)
        nm   == NodeMap(ns)
        topo == TopologicalSort(ns, seed)
    IN IF ~TopoValid(topo)
       THEN [ status |-> "InvalidArg", path |-> << >>, total_duration |-> 0,
              slack |-> << >> ]
       ELSE LET fwd   == ForwardPass(topo.order, 1, a, nm,
                             [ earliest_start |-> << >>,
                               earliest_finish |-> << >> ])
                total == FoldMax({ fwd.earliest_finish[x] :
                                      x \in DOMAIN fwd.earliest_finish })
                bwd   == BackwardPass(topo.order, Len(topo.order), a, nm, total,
                             [ latest_finish |-> << >>,
                               latest_start |-> << >> ])
                info  == SlackInfo(topo.order, fwd.earliest_start,
                                   bwd.latest_start)
                crit  == SelectSeq(info, LAMBDA s : IsCritical(s.slack))
            IN [ status |-> "Ok",
                 path |-> [ k \in 1..Len(crit) |-> crit[k].id ],
                 total_duration |-> total,
                 slack |-> info ]

critical_path ==
    /\ criticalRet = None
    /\ \E seed \in Seeds(graph) :
          criticalRet' = Some(CriticalPath(graph, seed))
    /\ UNCHANGED << graph, completed, topoRet, cyclesRet, readyRet , rounds >>
    /\ UNCHANGED notSolverVars

\* The inputs of critical_path: durations absent or given, chains, joins,
\* cycles and a dependency on an id that no node has.
DurationInputs == { None, Some(4), Some(5) }

CriticalDependsOnInputs ==
    { None, Some(<< "a" >>), Some(<< "b" >>), Some(<< "a", "b" >>),
      Some(<< "z" >>) }

CriticalNodes ==
    [ id : NodeIds, priority : { None }, depends_on : CriticalDependsOnInputs,
      estimated_duration : DurationInputs ]

CriticalInit ==
    /\ \E k \in 0..MaxCriticalNodes : graph \in [ 1..k -> CriticalNodes ]
    /\ completed = { }
    /\ SolverStart

CriticalNext ==
    \/ critical_path

(***************************************************************************)
(* get_ready_nodes (crates/dag/src/lib.rs)                                 *)
(*                                                                         *)
(* completed_json is decoded into a HashSet: completed is a set of ids.    *)
(***************************************************************************)

DepsMetAny(node, done) ==
    \/ node.depends_on = None
    \/ \E j \in 1..Len(DependsOn(node)) : DependsOn(node)[j] \in done

\* deps.iter().all(|d| completed.contains(d)), true when depends_on is
\* absent.
DepsMet(node, done) ==
    \/ node.depends_on = None
    \/ \A j \in 1..Len(DependsOn(node)) : DependsOn(node)[j] \in done

\* The loop over the nodes: the ids pushed to ready, in input order.
RECURSIVE ReadyIds(_, _, _)
ReadyIds(ns, i, done) ==
    IF i > Len(ns) THEN << >>
    ELSE IF ns[i].id \in done THEN ReadyIds(ns, i + 1, done)
    ELSE IF DepsMet(ns[i], done)
         THEN << ns[i].id >> \o ReadyIds(ns, i + 1, done)
         ELSE ReadyIds(ns, i + 1, done)

GetReadyNodesFirstOnly(ns, done) ==
    LET ready == SortLevel(ReadyIds(ns, 1, done), 1, NodeMap(ns), << >>)
    IN IF ready = << >> THEN ready ELSE << ready[1] >>

\* get_ready_nodes: ready.sort_by(pb.cmp(&pa)) is the stable sort of
\* topological_sort's levels, on the priorities of the node map.
GetReadyNodes(ns, done) ==
    SortLevel(ReadyIds(ns, 1, done), 1, NodeMap(ns), << >>)

get_ready_nodes ==
    /\ readyRet = None
    /\ readyRet' = Some(GetReadyNodes(graph, completed))
    /\ UNCHANGED << graph, completed, topoRet, cyclesRet, criticalRet, rounds >>
    /\ UNCHANGED notSolverVars

\* The inputs of get_ready_nodes: priorities absent, negative and positive;
\* no dependency, or two of which one names no node.
ReadyPriorityInputs == { None, Some(-1), Some(1) }

ReadyDependsOnInputs == { None, Some(<< "b", "z" >>) }

ReadyNodes ==
    [ id : NodeIds, priority : ReadyPriorityInputs,
      depends_on : ReadyDependsOnInputs, estimated_duration : { None } ]

ReadyInit ==
    /\ \E k \in 0..MaxReadyNodes : graph \in [ 1..k -> ReadyNodes ]
    /\ completed \in SUBSET { "a", "b", "z" }
    /\ SolverStart

ReadyNext ==
    \/ get_ready_nodes

(***************************************************************************)
(* SlidingWindowCounter (crates/metrics/src/lib.rs)                        *)
(*                                                                         *)
(* buckets and timestamps are indexed from 0, as the vectors are.  A call  *)
(* that panics leaves the counter as it was: the only operation that can   *)
(* panic, the division in advance_to, comes before any write.              *)
(***************************************************************************)

WindowSecondsInputs == { 0, 1, 2 }

\* bucket_count: zero, one, a count that does not divide the window, and a
\* count above the window's milliseconds.
BucketCountInputs == { 0, 1, 3, 1001 }

TimestampInputs == { -1, 0, 1, 400, 1500 }

Max(a, b) == IF a >= b THEN a ELSE b

\* SlidingWindowCounter::new
NewCounter(window_seconds, bucket_count) ==
    LET bc == Max(bucket_count, 1)
    IN [ bucket_duration_ms |-> (window_seconds * 1000) \div bc,
         bucket_count       |-> bc,
         buckets            |-> [ i \in 0..(bc - 1) |-> 0 ],
         timestamps         |-> [ i \in 0..(bc - 1) |-> 0 ],
         head               |-> 0 ]

\* The loop of advance_to: the head moves n buckets on, each bucket it
\* passes zeroed and stamped with now_ms.
AdvanceHead(c, now_ms, n) ==
    LET passed == { (c.head + k) % c.bucket_count : k \in 1..n }
    IN [ c EXCEPT !.head = (c.head + n) % c.bucket_count,
                  !.buckets = [ i \in DOMAIN @ |->
                                  IF i \in passed THEN 0 ELSE @[i] ],
                  !.timestamps = [ i \in DOMAIN @ |->
                                     IF i \in passed THEN now_ms ELSE @[i] ] ]

\* advance_to: the counter after it, or a panic when elapsed is divided by
\* a bucket duration of zero.
AdvanceTo(c, now_ms) ==
    LET current_bucket_ts == c.timestamps[c.head]
        elapsed           == now_ms - current_bucket_ts
    IN IF current_bucket_ts = 0
       THEN [ panic |-> FALSE,
              c |-> [ c EXCEPT !.timestamps[c.head] = now_ms ] ]
       ELSE IF elapsed < c.bucket_duration_ms
       THEN [ panic |-> FALSE, c |-> c ]
       ELSE IF c.bucket_duration_ms = 0
       THEN [ panic |-> TRUE, c |-> c ]
       ELSE [ panic |-> FALSE,
              c |-> AdvanceHead(c, now_ms,
                        Min(elapsed \div c.bucket_duration_ms,
                            c.bucket_count)) ]

WindowMs(c) == c.bucket_duration_ms * c.bucket_count

\* The sum of the buckets of the indices in todo.
RECURSIVE SumBuckets(_, _)
SumBuckets(c, todo) ==
    IF todo = { } THEN 0
    ELSE LET i == CHOOSE j \in todo : TRUE
         IN c.buckets[i] + SumBuckets(c, todo \ { i })

\* The loop of get_count and get_rate: the sum of the buckets stamped at
\* cutoff or later (the empty buckets add nothing).
Total(c, cutoff) ==
    SumBuckets(c, { i \in 0..(c.bucket_count - 1) :
                      c.timestamps[i] >= cutoff /\ c.buckets[i] # 0 })

\* get_count's result on the advanced counter.
Count(c, now_ms) == Total(c, now_ms - WindowMs(c))

\* get_rate's result on the advanced counter, total / (window_ms / 1000.0),
\* as the fraction num / den.
Rate(c, now_ms) ==
    IF WindowMs(c) > 0
    THEN [ num |-> 1000 * Count(c, now_ms), den |-> WindowMs(c) ]
    ELSE [ num |-> 0, den |-> 1 ]

SwcInit ==
    /\ \E window_seconds \in WindowSecondsInputs,
          bucket_count \in BucketCountInputs :
          /\ swc = NewCounter(window_seconds, bucket_count)
          /\ swcLog = << [ fn |-> "new", window_seconds |-> window_seconds,
                           bucket_count |-> bucket_count ] >>
    /\ swcRet = None
    /\ swcPanicked = FALSE

\* A call can be made: no earlier call panicked.
SwcCallable ==
    /\ ~swcPanicked
    /\ Len(swcLog) <= MaxCounterCalls

increment(now_ms) ==
    /\ SwcCallable
    /\ LET r == AdvanceTo(swc, now_ms)
       IN /\ swcPanicked' = r.panic
          /\ swc' = IF r.panic THEN swc
                    ELSE [ r.c EXCEPT !.buckets[r.c.head] = @ + 1 ]
    /\ swcRet' = None
    /\ swcLog' = Append(swcLog, [ fn |-> "increment", now_ms |-> now_ms ])
    /\ UNCHANGED notSwcVars

get_rate(now_ms) ==
    /\ SwcCallable
    /\ LET r == AdvanceTo(swc, now_ms)
       IN /\ swcPanicked' = r.panic
          /\ swc' = r.c
          /\ swcRet' = IF r.panic THEN None ELSE Some(Rate(r.c, now_ms))
    /\ swcLog' = Append(swcLog, [ fn |-> "get_rate", now_ms |-> now_ms ])
    /\ UNCHANGED notSwcVars

get_count(now_ms) ==
    /\ SwcCallable
    /\ LET r == AdvanceTo(swc, now_ms)
       IN /\ swcPanicked' = r.panic
          /\ swc' = r.c
          /\ swcRet' = IF r.panic THEN None ELSE Some(Count(r.c, now_ms))
    /\ swcLog' = Append(swcLog, [ fn |-> "get_count", now_ms |-> now_ms ])
    /\ UNCHANGED notSwcVars

SwcNext ==
    \/ \E now_ms \in TimestampInputs : increment(now_ms)
    \/ \E now_ms \in TimestampInputs : get_rate(now_ms)
    \/ \E now_ms \in TimestampInputs : get_count(now_ms)

(***************************************************************************)
(* SwarmEngine::tally_votes and route_tasks (crates/swarm/src/lib.rs)      *)
(*                                                                         *)
(* Both are pure functions of their arguments: swarmCall holds the         *)
(* arguments of one call from the start, and the call stores what it       *)
(* returned.  Weights and intensities are f64; the model takes weights     *)
(* among small integers and intensities among fractions num / den, and     *)
(* compares quotients and products by cross-multiplication, which is       *)
(* exact.                                                                  *)
(***************************************************************************)

MethodInputs ==
    { "majority", "supermajority", "unanimous", "ranked", "weighted" }

\* vote_value: the name of an option, or a ranking written as a JSON array.
VoteValueInputs == { "yes", "no", "[\"no\",\"yes\"]" }

VoteWeightInputs == { -1, 1, 2 }

VoteInputs ==
    [ voter_handle : { "v" }, vote_value : VoteValueInputs,
      vote_weight : VoteWeightInputs ]

OptionsInputs == { << >>, << "yes", "no" >>, << "yes", "no", "maybe" >> }

\* serde_json::from_str::<Vec<String>>(&vote.vote_value), on the values
\* above.
Rankings(vote_value) ==
    IF vote_value = "[\"no\",\"yes\"]" THEN Some(<< "no", "yes" >>) ELSE None

\* *tally.entry(key).or_insert(0.0) += amount
AddTo(tally, key, amount) ==
    IF key \in DOMAIN tally
    THEN [ tally EXCEPT ![key] = @ + amount ]
    ELSE tally @@ (key :> amount)

\* The Borda points of one ranked vote: n - i for the option at index i.
RECURSIVE AddPoints(_, _, _, _)
AddPoints(rankings, i, weight, tally) ==
    IF i >= Len(rankings) THEN tally
    ELSE AddPoints(rankings, i + 1, weight,
                   AddTo(tally, rankings[i + 1], (Len(rankings) - i) * weight))

\* The loop over the votes; st holds tally and total_weight.
RECURSIVE CountVotes(_, _, _, _)
CountVotes(votes, k, method, st) ==
    IF k > Len(votes) THEN st
    ELSE LET vote == votes[k]
         IN CountVotes(votes, k + 1, method,
              IF method = "ranked"
              THEN IF Rankings(vote.vote_value) # None
                   THEN [ tally |-> AddPoints(Rankings(vote.vote_value)[1], 0,
                                              vote.vote_weight, st.tally),
                          total_weight |-> st.total_weight + vote.vote_weight ]
                   ELSE st
              ELSE [ tally |-> AddTo(st.tally, vote.vote_value, vote.vote_weight),
                     total_weight |-> st.total_weight + vote.vote_weight ])

\* The loop that finds the winner, over the tally map in the order iter;
\* st holds winner and max_votes.
RECURSIVE FindWinner(_, _, _, _)
FindWinner(iter, k, tally, st) ==
    IF k > Len(iter) THEN st
    ELSE FindWinner(iter, k + 1, tally,
            IF tally[iter[k]] > st.max_votes
            THEN [ winner |-> Some(iter[k]), max_votes |-> tally[iter[k]] ]
            ELSE st)

QuorumMetByRatioOnly(method, max_votes, total_weight, options) ==
    /\ total_weight > 0
    /\ 2 * max_votes > total_weight

\* quorum_met, with winner_ratio = max_votes / total_weight: 0.667 is
\* 667 / 1000.
QuorumMet(method, max_votes, total_weight, options) ==
    /\ total_weight > 0
    /\ CASE method = "supermajority" -> 1000 * max_votes >= 667 * total_weight
         [] method = "unanimous"     -> max_votes >= total_weight
         [] OTHER -> \/ 2 * max_votes > total_weight
                     \/ Len(options) <= 2

\* tally_votes; iter is the order in which the tally map is iterated.  The
\* tally entries, a vector in the map's order, are held as the map option
\* -> count.
TallyVotes(votes, options, method, iter) ==
    LET counted == CountVotes(votes, 1, method,
                      [ tally |-> [ o \in Range(options) |-> 0 ],
                        total_weight |-> 0 ])
        found   == FindWinner(iter, 1, counted.tally,
                      [ winner |-> None, max_votes |-> 0 ])
        quorum_met == QuorumMet(method, found.max_votes,
                                counted.total_weight, options)
    IN [ winner         |-> IF quorum_met THEN found.winner ELSE None,
         tally          |-> counted.tally,
         quorum_met     |-> quorum_met,
         total_votes    |-> Len(votes),
         weighted_total |-> counted.total_weight,
         participation_rate |->
             IF counted.total_weight > 0
             THEN [ num |-> Len(votes), den |-> counted.total_weight ]
             ELSE [ num |-> 0, den |-> 1 ] ]

\* The keys of the tally map after the votes were counted.
TallyKeys(votes, options, method) ==
    DOMAIN CountVotes(votes, 1, method,
                      [ tally |-> [ o \in Range(options) |-> 0 ],
                        total_weight |-> 0 ]).tally

\* quorum_value is not read.
tally_votes ==
    /\ swarmCall # None
    /\ swarmCall[1].fn = "tally_votes"
    /\ swarmRet = None
    /\ LET call == swarmCall[1]
       IN \E iter \in Orders(TallyKeys(call.votes, call.options, call.method)) :
             swarmRet' = Some(TallyVotes(call.votes, call.options,
                                         call.method, iter))
    /\ UNCHANGED << swarmCall, routePicks >>
    /\ UNCHANGED notSwarmVars

\* The fraction num / den.
Frac(num, den) == [ num |-> num, den |-> den ]

TaskNames == { "t1", "t2" }

\* workers: none, one, two, and three in another order.
WorkersInputs ==
    { << >>, << "w1" >>, << "w1", "w2" >>, << "w2", "w1", "w3" >> }

\* trail_strengths: worker -> task -> intensity; no trail at all, and
\* trails that are strong, weak, zero and equal.
TrailsInputs ==
    { << >>,
      ("w1" :> ("t1" :> Frac(1, 2))),
      ("w1" :> (("t1" :> Frac(3, 1)) @@ ("t2" :> Frac(1, 20))))
          @@ ("w2" :> ("t1" :> Frac(1, 1))),
      ("w2" :> (("t1" :> Frac(0, 1)) @@ ("t2" :> Frac(1, 5))))
          @@ ("w3" :> ("t2" :> Frac(1, 5))) }

AlphaInputs == { 0, 1, 2 }

\* x to the power n, n a natural number; 0 to the power 0 is 1, as powf
\* has it.
RECURSIVE Pow(_, _)
Pow(x, n) == IF n = 0 THEN 1 ELSE x * Pow(x, n - 1)

\* trails.get(worker).and_then(|t| t.get(task)).copied().unwrap_or(0.1)
TrailIntensity(trails, worker, task) ==
    IF worker \in DOMAIN trails /\ task \in DOMAIN trails[worker]
    THEN trails[worker][task]
    ELSE Frac(1, 10)

RouteScoreWithoutLoad(trail_intensity, alpha, load) ==
    Frac(Pow(trail_intensity.num, alpha), Pow(trail_intensity.den, alpha))

\* trail_intensity.powf(alpha) * (1.0 / (1.0 + load))
RouteScore(trail_intensity, alpha, load) ==
    Frac(Pow(trail_intensity.num, alpha),
         Pow(trail_intensity.den, alpha) * (1 + load))

\* score > best_score.  best_score starts at f64::MIN, written None here:
\* every score of the model is at least 0 and so above it.
Beats(score, best_score) ==
    \/ best_score = None
    \/ score.num * best_score[1].den > best_score[1].num * score.den

\* The loop over the workers for one task; best holds best_worker and
\* best_score.
RECURSIVE PickWorker(_, _, _, _, _, _, _)
PickWorker(task, workers, j, trails, alpha, worker_load, best) ==
    IF j > Len(workers) THEN best
    ELSE LET worker == workers[j]
             score  == RouteScore(TrailIntensity(trails, worker, task),
                                  alpha, GetOr(worker_load, worker, 0))
         IN PickWorker(task, workers, j + 1, trails, alpha, worker_load,
                IF Beats(score, best.best_score)
                THEN [ best_worker |-> Some(worker), best_score |-> Some(score) ]
                ELSE best)

\* The loop over the tasks; st holds assignments, worker_load and the
\* history of the workers picked.
RECURSIVE AssignTasks(_, _, _, _, _, _)
AssignTasks(tasks, i, workers, trails, alpha, st) ==
    IF i > Len(tasks) THEN st
    ELSE LET best == PickWorker(tasks[i], workers, 1, trails, alpha,
                                st.worker_load,
                                [ best_worker |-> None, best_score |-> None ])
         IN AssignTasks(tasks, i + 1, workers, trails, alpha,
                IF best.best_worker # None
                THEN LET worker == best.best_worker[1]
                     IN [ assignments |->
                              [ t \in DOMAIN st.assignments \cup { tasks[i] } |->
                                  IF t = tasks[i] THEN worker
                                  ELSE st.assignments[t] ],
                          worker_load |->
                              AddTo(st.worker_load, worker, 1),
                          picks |-> Append(st.picks, best.best_worker) ]
                ELSE [ st EXCEPT !.picks = Append(@, None) ])

\* route_tasks; the JSON object it returns is held as the map it encodes.
RouteTasks(tasks, workers, trails, alpha) ==
    IF workers = << >>
    THEN [ assignments |-> << >>, worker_load |-> << >>, picks |-> << >> ]
    ELSE AssignTasks(tasks, 1, workers, trails, alpha,
                     [ assignments |-> << >>, worker_load |-> << >>,
                       picks |-> << >> ])

route_tasks ==
    /\ swarmCall # None
    /\ swarmCall[1].fn = "route_tasks"
    /\ swarmRet = None
    /\ LET call == swarmCall[1]
           r    == RouteTasks(call.tasks, call.workers, call.trails, call.alpha)
       IN /\ swarmRet' = Some(r.assignments)
          /\ routePicks' = r.picks
    /\ UNCHANGED swarmCall
    /\ UNCHANGED notSwarmVars

\* The arguments of one call of tally_votes or of route_tasks.
SwarmInit ==
    /\ \/ \E k \in 0..MaxVotes :
          \E votes \in [ 1..k -> VoteInputs ], options \in OptionsInputs,
             method \in MethodInputs :
             swarmCall = Some([ fn |-> "tally_votes", votes |-> votes,
                                options |-> options, method |-> method ])
       \/ \E k \in 0..MaxTasks :
          \E tasks \in [ 1..k -> TaskNames ], workers \in WorkersInputs,
             trails \in TrailsInputs, alpha \in AlphaInputs :
             swarmCall = Some([ fn |-> "route_tasks", tasks |-> tasks,
                                workers |-> workers, trails |-> trails,
                                alpha |-> alpha ])
    /\ swarmRet = None
    /\ routePicks = << >>

SwarmNext ==
    \/ tally_votes
    \/ route_tasks

(***************************************************************************)
(* CompoundAccumulator (crates/compound)                                   *)
(*                                                                         *)
(* A snapshot string is a sequence of lexical symbols: the braces of a     *)
(* JSON object, a plain character, and one symbol for each "key":value     *)
(* member.                                                                 *)
(***************************************************************************)

\* The members of a snapshot object: symbol -> key, whether the value has
\* the type SnapshotInput gives that key, and the decoded value.  A worker
\* list is decoded to the WorkerInfo of its elements; "handle" is the one
\* member a WorkerInfo cannot lack.
SnapshotMembers ==
    [ sym \in { "tasksCompleted:1", "tasksCompleted:2", "tasksCompleted:-1",
                "tasksCompleted:x", "tasks_completed:3", "knowledgeEntries:1",
                "creditsTotal:4", "workers:w1,w2", "workers:nohandle",
                "swarms:s1" } |->
        CASE sym = "tasksCompleted:1"   -> [ key |-> "tasksCompleted", typed |-> TRUE, value |-> 1 ]
          [] sym = "tasksCompleted:2"   -> [ key |-> "tasksCompleted", typed |-> TRUE, value |-> 2 ]
          [] sym = "tasksCompleted:-1"  -> [ key |-> "tasksCompleted", typed |-> FALSE, value |-> -1 ]
          [] sym = "tasksCompleted:x"   -> [ key |-> "tasksCompleted", typed |-> FALSE, value |-> 0 ]
          [] sym = "tasks_completed:3"  -> [ key |-> "tasks_completed", typed |-> TRUE, value |-> 3 ]
          [] sym = "knowledgeEntries:1" -> [ key |-> "knowledgeEntries", typed |-> TRUE, value |-> 1 ]
          [] sym = "creditsTotal:4"     -> [ key |-> "creditsTotal", typed |-> TRUE, value |-> 4 ]
          [] sym = "workers:w1,w2"      -> [ key |-> "workers", typed |-> TRUE, value |->
                                               << [ handle |-> "w1", state |-> "working", health |-> "healthy" ],
                                                  [ handle |-> "w2", state |-> "stopped", health |-> "" ] >> ]
          [] sym = "workers:nohandle"   -> [ key |-> "workers", typed |-> FALSE, value |-> << >> ]
          [] sym = "swarms:s1"          -> [ key |-> "swarms", typed |-> TRUE, value |->
                                               << [ id |-> "s1", name |-> "one" ] >> ] ]

\* The keys of SnapshotInput, renamed to camelCase.
SnapshotKeys ==
    { "workers", "swarms", "tasksTotal", "tasksCompleted", "knowledgeEntries",
      "creditsTotal", "blackboardMessages", "pheromoneTrails" }

\* #[serde(default)]: the value of the member with the given key, or the
\* default of the field.
FieldOr(body, key, default) ==
    IF \E i \in 1 .. Len(body) : SnapshotMembers[body[i]].key = key
    THEN SnapshotMembers[body[CHOOSE i \in 1 .. Len(body) :
                                  SnapshotMembers[body[i]].key = key]].value
    ELSE default

\* serde_json::from_str::<SnapshotInput>: Some(snapshot) for an object
\* whose members of a known key have the type of their field, each known
\* key at most once; members of other keys are skipped; None for anything
\* else.
DecodeSnapshot(json) ==
    IF /\ Len(json) >= 2
       /\ json[1] = "{"
       /\ json[Len(json)] = "}"
       /\ \A i \in 2 .. Len(json) - 1 : json[i] \in DOMAIN SnapshotMembers
       /\ \A i \in 2 .. Len(json) - 1 :
            SnapshotMembers[json[i]].key \in SnapshotKeys => SnapshotMembers[json[i]].typed
       /\ \A i, j \in 2 .. Len(json) - 1 :
            (i # j /\ SnapshotMembers[json[i]].key \in SnapshotKeys)
                => SnapshotMembers[json[i]].key # SnapshotMembers[json[j]].key
    THEN LET body == SubSeq(json, 2, Len(json) - 1)
         IN Some([ workers             |-> FieldOr(body, "workers", << >>),
                   swarms              |-> FieldOr(body, "swarms", << >>),
                   tasks_total         |-> FieldOr(body, "tasksTotal", 0),
                   tasks_completed     |-> FieldOr(body, "tasksCompleted", 0),
                   knowledge_entries   |-> FieldOr(body, "knowledgeEntries", 0),
                   credits_total       |-> FieldOr(body, "creditsTotal", 0),
                   blackboard_messages |-> FieldOr(body, "blackboardMessages", 0),
                   pheromone_trails    |-> FieldOr(body, "pheromoneTrails", 0) ])
    ELSE None

\* Capacity of the ring buffer.  The crate sets 720; the model explores the
\* same eviction rule with a small capacity.
MAX_POINTS == 2

\* Number of steps (calls and clock ticks) explored on one accumulator.
MaxCompSteps == 4

\* The TimeSeriesPoint push_snapshot builds from a decoded snapshot.
PointOf(snap, t) ==
    LET active  == { i \in 1 .. Len(snap.workers) : snap.workers[i].state # "stopped" }
        healthy == { i \in 1 .. Len(snap.workers) : snap.workers[i].health = "healthy" }
    IN [ timestamp           |-> t,
         tasks_completed     |-> snap.tasks_completed,
         knowledge_entries   |-> snap.knowledge_entries,
         credits_earned      |-> snap.credits_total,
         active_workers      |-> Cardinality(active),
         healthy_workers     |-> Cardinality(healthy),
         total_swarms        |-> Len(snap.swarms),
         blackboard_messages |-> snap.blackboard_messages,
         pheromone_trails    |-> snap.pheromone_trails ]

\* "Ring buffer: remove oldest if at capacity"
PushPointNoEvict(ps, point) == Append(ps, point)

PushPoint(ps, point) ==
    IF Len(ps) >= MAX_POINTS THEN Append(Tail(ps), point) ELSE Append(ps, point)

\* push_snapshot: the buffer after the call, and the Result returned.
PushSnapshotStoringDefault(ps, json, t) ==
    LET snap == DecodeSnapshot(json)
    IN IF snap = None
       THEN [ points |-> PushPoint(ps, PointOf(DecodeSnapshot(<< "{", "}" >>)[1], t)),
              ret |-> "InvalidArg" ]
       ELSE [ points |-> PushPoint(ps, PointOf(snap[1], t)), ret |-> "Ok" ]

PushSnapshot(ps, json, t) ==
    LET snap == DecodeSnapshot(json)
    IN IF snap = None
       THEN [ points |-> ps, ret |-> "InvalidArg" ]
       ELSE [ points |-> PushPoint(ps, PointOf(snap[1], t)), ret |-> "Ok" ]

\* Snapshot strings given to push_snapshot.
SnapshotInputs ==
    { << "{", "}" >>,
      << "{", "tasksCompleted:1", "}" >>,
      << "{", "tasksCompleted:2", "knowledgeEntries:1", "creditsTotal:4",
         "workers:w1,w2", "swarms:s1", "}" >>,
      << "{", "tasks_completed:3", "}" >>,
      << "{", "tasksCompleted:-1", "}" >>,
      << "{", "tasksCompleted:x", "}" >>,
      << "{", "tasksCompleted:1", "tasksCompleted:2", "}" >>,
      << "{", "workers:nohandle", "}" >>,
      << "{", "tasksCompleted:1" >>,
      << "x" >>,
      << >> }

CompInit ==
    /\ points = << >>
    /\ compNow = 1
    /\ compCall = [ op |-> "new" ]
    /\ compRet = << >>
    /\ pushed = << >>
    /\ nCompSteps = 0

CompStepped ==
    /\ nCompSteps < MaxCompSteps
    /\ nCompSteps' = nCompSteps + 1
    /\ UNCHANGED notCompVars

\* The wall clock advances between calls.
CompTick ==
    /\ CompStepped
    /\ compNow' = compNow + 1
    /\ UNCHANGED << points, compCall, compRet, pushed >>

push_snapshot(snapshot_json) ==
    /\ CompStepped
    /\ LET r == PushSnapshot(points, snapshot_json, compNow)
       IN /\ points' = r.points
          /\ compRet' = << r.ret >>
          /\ pushed' = IF r.ret = "Ok" THEN Append(pushed, r.points[Len(r.points)])
                       ELSE pushed
    /\ compCall' = [ op |-> "push_snapshot", arg |-> snapshot_json, before |-> points ]
    /\ UNCHANGED compNow

get_time_series ==
    /\ CompStepped
    /\ compRet' = points
    /\ compCall' = [ op |-> "get_time_series" ]
    /\ UNCHANGED << points, compNow, pushed >>

get_point_count ==
    /\ CompStepped
    /\ compRet' = << Len(points) >>
    /\ compCall' = [ op |-> "get_point_count" ]
    /\ UNCHANGED << points, compNow, pushed >>

CompNext ==
    \/ CompTick
    \/ \E j \in SnapshotInputs : push_snapshot(j)
    \/ get_time_series
    \/ get_point_count

(***************************************************************************)
(* MetricsEngine: named histograms and counters (crates/metrics)           *)
(*                                                                         *)
(* Observed values and bucket boundaries are counted in thousandths, so    *)
(* that the default boundaries are integers.                               *)
(***************************************************************************)

\* Number of calls explored on one engine.
MaxMeSteps == 4

DEFAULT_BUCKETS == << 1, 5, 10, 25, 50, 100, 250, 500, 1000, 2500, 5000, 10000 >>

DEFAULT_MAX_SAMPLES == 10000

\* Vec::sort_by with partial_cmp, a stable sort: each element is inserted
\* after the elements not greater than it.
RECURSIVE InsertValue(_, _)
InsertValue(sorted, x) ==
    IF sorted = << >> THEN << x >>
    ELSE IF sorted[1] <= x
         THEN << sorted[1] >> \o InsertValue(Tail(sorted), x)
         ELSE << x >> \o sorted

RECURSIVE SortValues(_, _, _)
SortValues(values, k, acc) ==
    IF k > Len(values) THEN acc
    ELSE SortValues(values, k + 1, InsertValue(acc, values[k]))

\* MetricsHistogram::new(buckets, None)
NewHistogram(bucketsOpt) ==
    LET b == SortValues(UnwrapOr(bucketsOpt, DEFAULT_BUCKETS), 1, << >>)
    IN [ buckets     |-> b,
         counts      |-> [ i \in 1 .. Len(b) + 1 |-> 0 ],
         sum         |-> 0,
         count       |-> 0,
         samples     |-> << >>,
         max_samples |-> DEFAULT_MAX_SAMPLES ]

\* The bucket an observation is counted in: the first whose boundary is not
\* below the value, the +Inf bucket when there is none.
BucketOf(h, value) ==
    IF \E i \in 1 .. Len(h.buckets) : value <= h.buckets[i]
    THEN CHOOSE i \in 1 .. Len(h.buckets) :
            /\ value <= h.buckets[i]
            /\ \A j \in 1 .. i - 1 : value > h.buckets[j]
    ELSE Len(h.buckets) + 1

\* MetricsHistogram::observe
Observe(h, value) ==
    [ h EXCEPT !.sum = @ + value,
               !.count = @ + 1,
               !.counts[BucketOf(h, value)] = @ + 1,
               !.samples = IF Len(@) < h.max_samples THEN Append(@, value) ELSE @ ]

\* MetricsHistogram::get_percentiles: the histogram after the call (its
\* samples are sorted in place) and the PercentileSnapshot.  Indices are
\* those of the code, counted from zero; the mean is the fraction
\* sum / count.
GetPercentiles(h) ==
    IF h.samples = << >>
    THEN [ h |-> h,
           snapshot |-> [ p50 |-> 0, p95 |-> 0, p99 |-> 0,
                          mean |-> [ num |-> 0, den |-> 1 ],
                          count |-> 0, sum |-> 0 ] ]
    ELSE LET sorted == SortValues(h.samples, 1, << >>)
             len == Len(sorted)
         IN [ h |-> [ h EXCEPT !.samples = sorted ],
              snapshot |-> [ p50 |-> sorted[((5 * len) \div 10) + 1],
                             p95 |-> sorted[Min((95 * len) \div 100, len - 1) + 1],
                             p99 |-> sorted[Min((99 * len) \div 100, len - 1) + 1],
                             mean |-> IF h.count > 0
                                      THEN [ num |-> h.sum, den |-> h.count ]
                                      ELSE [ num |-> 0, den |-> 1 ],
                             count |-> h.count,
                             sum |-> h.sum ] ]

\* Metric names given to the engine.
Names == { "a", "b" }

\* buckets arguments of create_histogram: Option<Vec<f64>>.
BucketsInputs == { None, Some(<< 2000, 1000 >>) }

\* value arguments of observe_histogram.
ValueInputs == { 1500, 20000 }

\* window_seconds and bucket_count arguments of create_counter.
CounterInputs == { << 1, 2 >>, << 0, 1 >> }

\* now_ms arguments of increment_counter and get_counter_rate.
NowInputs == { 1, 1500 }

\* HashMap::new()
EmptyMap == [ n \in { } |-> 0 ]

\* HashMap::insert
Insert(map, key, value) ==
    [ k \in DOMAIN map \cup { key } |-> IF k = key THEN value ELSE map[k] ]

\* The value returned to the caller: a value of the return type of the
\* function called.
ReturnedAs(type, value) == [ type |-> type, value |-> value ]

\* The engine's four fields, as one record.
Engine ==
    [ histograms      |-> histograms,
      histogram_store |-> histogram_store,
      counters        |-> counters,
      counter_store   |-> counter_store ]

\* MetricsEngine::new()
MeInit ==
    /\ histograms = EmptyMap
    /\ histogram_store = << >>
    /\ counters = EmptyMap
    /\ counter_store = << >>
    /\ meCall = [ op |-> "new" ]
    /\ meRet = ReturnedAs("Self", 0)
    /\ mePanicked = FALSE
    /\ creates = << >>
    /\ nMeSteps = 0

\* One more call on the engine: no earlier call panicked.
MeStepped ==
    /\ nMeSteps < MaxMeSteps
    /\ ~mePanicked
    /\ nMeSteps' = nMeSteps + 1
    /\ UNCHANGED notMeVars

\* Indices into the two stores are counted from zero, as in the code.
create_histogram(name, bucketsOpt) ==
    /\ MeStepped
    /\ LET idx == Len(histogram_store)
       IN /\ histogram_store' = Append(histogram_store, NewHistogram(bucketsOpt))
          /\ histograms' = Insert(histograms, name, idx)
          /\ meRet' = ReturnedAs("u32", idx)
          /\ creates' = Append(creates, [ kind |-> "histogram", name |-> name,
                                          idx |-> idx ])
    /\ meCall' = [ op |-> "create_histogram", name |-> name, before |-> Engine ]
    /\ UNCHANGED << counters, counter_store, mePanicked >>

observe_histogram(name, value) ==
    /\ MeStepped
    /\ histogram_store' =
          IF name \in DOMAIN histograms
          THEN [ histogram_store EXCEPT ![histograms[name] + 1] = Observe(@, value) ]
          ELSE histogram_store
    /\ meRet' = ReturnedAs("()", 0)
    /\ meCall' = [ op |-> "observe_histogram", name |-> name, before |-> Engine ]
    /\ UNCHANGED << histograms, counters, counter_store, mePanicked, creates >>

get_histogram_percentiles(name) ==
    /\ MeStepped
    /\ IF name \in DOMAIN histograms
       THEN LET r == GetPercentiles(histogram_store[histograms[name] + 1])
            IN /\ histogram_store' =
                      [ histogram_store EXCEPT ![histograms[name] + 1] = r.h ]
               /\ meRet' = ReturnedAs("Option<PercentileSnapshot>", Some(r.snapshot))
       ELSE /\ histogram_store' = histogram_store
            /\ meRet' = ReturnedAs("Option<PercentileSnapshot>", None)
    /\ meCall' = [ op |-> "get_histogram_percentiles", name |-> name,
                   before |-> Engine ]
    /\ UNCHANGED << histograms, counters, counter_store, mePanicked, creates >>

create_counter(name, window_seconds, bucket_count) ==
    /\ MeStepped
    /\ LET idx == Len(counter_store)
       IN /\ counter_store' = Append(counter_store,
                                     NewCounter(window_seconds, bucket_count))
          /\ counters' = Insert(counters, name, idx)
          /\ meRet' = ReturnedAs("u32", idx)
          /\ creates' = Append(creates, [ kind |-> "counter", name |-> name,
                                          idx |-> idx ])
    /\ meCall' = [ op |-> "create_counter", name |-> name, before |-> Engine ]
    /\ UNCHANGED << histograms, histogram_store, mePanicked >>

increment_counter(name, now_ms) ==
    /\ MeStepped
    /\ IF name \in DOMAIN counters
       THEN LET r == AdvanceTo(counter_store[counters[name] + 1], now_ms)
            IN /\ mePanicked' = r.panic
               /\ counter_store' =
                     IF r.panic THEN counter_store
                     ELSE [ counter_store EXCEPT ![counters[name] + 1] =
                              [ r.c EXCEPT !.buckets[r.c.head] = @ + 1 ] ]
       ELSE UNCHANGED << counter_store, mePanicked >>
    /\ meRet' = ReturnedAs("()", 0)
    /\ meCall' = [ op |-> "increment_counter", name |-> name, before |-> Engine ]
    /\ UNCHANGED << histograms, histogram_store, counters, creates >>

get_counter_rate(name, now_ms) ==
    /\ MeStepped
    /\ IF name \in DOMAIN counters
       THEN LET r == AdvanceTo(counter_store[counters[name] + 1], now_ms)
            IN /\ mePanicked' = r.panic
               /\ counter_store' =
                     [ counter_store EXCEPT ![counters[name] + 1] = r.c ]
               /\ meRet' = ReturnedAs("f64", IF r.panic THEN [ num |-> 0, den |-> 1 ]
                                           ELSE Rate(r.c, now_ms))
       ELSE /\ meRet' = ReturnedAs("f64", [ num |-> 0, den |-> 1 ])
            /\ UNCHANGED << counter_store, mePanicked >>
    /\ meCall' = [ op |-> "get_counter_rate", name |-> name, before |-> Engine ]
    /\ UNCHANGED << histograms, histogram_store, counters, creates >>

MeNext ==
    \/ \E n \in Names, b \in BucketsInputs : create_histogram(n, b)
    \/ \E n \in Names, v \in ValueInputs : observe_histogram(n, v)
    \/ \E n \in Names : get_histogram_percentiles(n)
    \/ \E n \in Names, c \in CounterInputs : create_counter(n, c[1], c[2])
    \/ \E n \in Names, t \in NowInputs : increment_counter(n, t)
    \/ \E n \in Names, t \in NowInputs : get_counter_rate(n, t)

(***************************************************************************)
(* The scheduling loop over get_ready_nodes (crates/dag/src/lib.rs)        *)
(*                                                                         *)
(* A caller starts with completed = {} and calls get_ready_nodes again and *)
(* again, adding every id returned to completed, until a call returns no   *)
(* id.  rounds lists what the calls returned.                              *)
(***************************************************************************)

\* The loop has stopped: its last call returned no id.
LoopStopped == rounds # << >> /\ rounds[Len(rounds)] = << >>

\* One round of the loop: get_ready_nodes on the ids completed so far.
schedule_round ==
    /\ ~LoopStopped
    /\ LET ready == GetReadyNodes(graph, completed)
       IN /\ rounds' = Append(rounds, ready)
          /\ completed' = completed \cup Range(ready)
    /\ UNCHANGED << graph, topoRet, cyclesRet, criticalRet, readyRet >>
    /\ UNCHANGED notSolverVars

\* The inputs of the loop: the node lists of the cycle checks.
ScheduleInit ==
    /\ \E k \in 0..MaxGraph : graph \in [ 1..k -> CycleNodes ]
    /\ completed = { }
    /\ SolverStart

ScheduleNext ==
    \/ topological_sort
    \/ schedule_round


(***************************************************************************)
(* downsample (crates/metrics/src/lib.rs)                                  *)
(*                                                                         *)
(* A pure function of its arguments.  points_json is held as what          *)
(* serde_json decodes it to, a list of rows of numbers, or as a text that  *)
(* does not decode; the result is held as the rows that are serialized.    *)
(* The numbers are f64: the model takes small integers for the inputs and  *)
(* holds a mean as the fraction sum / n.                                   *)
(***************************************************************************)

MaxRows == 3

FactorInputs == { 0, 1, 2, 3 }

\* Rows of two columns, a row of one column and a row of none.
RowInputs == [ 1..2 -> { 1, 2, 4 } ] \cup { << 7 >>, << >> }

PointsInputs ==
    { [ decodes |-> TRUE, rows |-> r ] :
        r \in UNION { [ 1..k -> RowInputs ] : k \in 0..MaxRows } }
    \cup { [ decodes |-> FALSE, rows |-> << >> ] }

\* serde_json::from_str::<Vec<Vec<f64>>>(&points_json)
DecodePoints(points_json) ==
    IF points_json.decodes THEN Some(points_json.rows) ELSE None

\* points.chunks(factor): consecutive groups of factor rows, the last one
\* holding what is left.
RECURSIVE Chunks(_, _)
Chunks(pts, factor) ==
    IF pts = << >> THEN << >>
    ELSE IF Len(pts) <= factor THEN << pts >>
    ELSE << SubSeq(pts, 1, factor) >>
            \o Chunks(SubSeq(pts, factor + 1, Len(pts)), factor)

\* The loop over the points of a chunk: each value of a point is added to
\* avg at its index, if the index is below cols.
RECURSIVE SumColumns(_, _, _)
SumColumns(chunk, k, avg) ==
    IF k > Len(chunk) THEN avg
    ELSE SumColumns(chunk, k + 1,
            [ i \in 1..Len(avg) |->
                IF i <= Len(chunk[k]) THEN avg[i] + chunk[k][i] ELSE avg[i] ])

AverageOverFactor(chunk, factor) ==
    LET cols == Len(chunk[1])
        avg  == SumColumns(chunk, 1, [ i \in 1..cols |-> 0 ])
    IN [ i \in 1..cols |-> Frac(avg[i], factor) ]

\* The body of the loop over the chunks: the column sums over the rows of
\* the chunk, the columns being those of its first row, divided by the
\* number of rows of the chunk.
Average(chunk, factor) ==
    LET cols == Len(chunk[1])
        avg  == SumColumns(chunk, 1, [ i \in 1..cols |-> 0 ])
    IN [ i \in 1..cols |-> Frac(avg[i], Len(chunk)) ]

\* downsample: None is the error "Invalid points".
Downsample(points_json, factor) ==
    LET pts == DecodePoints(points_json)
        f      == Max(factor, 1)
    IN IF pts = None THEN None
       ELSE LET chunks == Chunks(pts[1], f)
            IN Some([ j \in 1..Len(chunks) |-> Average(chunks[j], f) ])

\* One call.
downsample ==
    /\ meCall.op = "new"
    /\ MeStepped
    /\ \E points_json \in PointsInputs, factor \in FactorInputs :
         /\ meCall' = [ op |-> "downsample", points_json |-> points_json,
                        factor |-> factor ]
         /\ meRet' = ReturnedAs("Result<String>",
                                Downsample(points_json, factor))
    /\ UNCHANGED << histograms, histogram_store, counters, counter_store,
                    mePanicked, creates >>

DownsampleNext ==
    \/ downsample

(***************************************************************************)
(* CompoundAccumulator::build_lineage_tree (crates/compound/src/lib.rs)    *)
(*                                                                         *)
(* A function of its argument: the accumulator is not read.  workers_json  *)
(* is held as the list of WorkerInfo it decodes to, or as a text that does *)
(* not decode; the tree is held as the LineageNode that is serialized.  A  *)
(* worker node's name is its id, and the constant names of the root and    *)
(* the group are left out; teamName is decoded and not read.               *)
(***************************************************************************)

MaxWorkers == 3

\* The handle of the worker at each position of the list: the third worker
\* has the handle of the first.
HandleAt == << "w1", "w2", "w1", "w3", "w4" >>

\* swarmId: absent, empty, two swarms, and an id of three characters of
\* three bytes each, written <3><3><3>: its eighth byte lies inside a
\* character.
SwarmIdInputs == { None, Some(""), Some("s1"), Some("s2"), Some("<3><3><3>") }

DepthLevelInputs == { None, Some(1), Some(2) }

\* A workers_json that decodes to k workers, worker i having the swarmId
\* f[i].s and the depthLevel f[i].d.
WorkersJson(k, f) ==
    [ decodes |-> TRUE,
      workers |-> [ i \in 1..k |->
                      [ handle |-> HandleAt[i], state |-> "working",
                        health |-> "healthy", swarm_id |-> f[i].s,
                        depth_level |-> f[i].d ] ] ]

\* A workers_json that does not decode.
NotWorkersJson == [ decodes |-> FALSE, workers |-> << >> ]

\* serde_json::from_str::<Vec<WorkerInfo>>(&workers_json)
DecodeWorkers(workers_json) ==
    IF workers_json.decodes THEN Some(workers_json.workers) ELSE None

\* Some(sid) if !sid.is_empty()
HasSwarm(worker) == worker.swarm_id # None /\ worker.swarm_id[1] # ""

\* The keys of by_swarm.
SwarmIds(workers) ==
    { workers[i].swarm_id[1] : i \in { k \in 1..Len(workers) : HasSwarm(workers[k]) } }

\* by_swarm[swarm_id]: the workers of the swarm, in input order.
BySwarm(workers, swarm_id) ==
    SelectSeq(workers, LAMBDA w : HasSwarm(w) /\ w.swarm_id[1] = swarm_id)

\* The workers that go under the "unassigned" group, in input order.
UnassignedOf(workers) == SelectSeq(workers, LAMBDA w : ~HasSwarm(w))

\* w.depth_level.unwrap_or(0)
DepthOf(w) == UnwrapOr(w.depth_level, 0)

\* The LineageNode of a worker.
WorkerNode(w) ==
    [ id |-> w.handle, type |-> "worker", state |-> Some(w.state),
      health |-> Some(w.health), children |-> << >> ]

\* depth_buckets[depth]: members is sorted by depth with a stable sort and
\* its nodes are pushed in that order, so a bucket holds the nodes of the
\* workers of its depth in input order.
DepthBucket(members, depth) ==
    LET at == SelectSeq(members, LAMBDA w : DepthOf(w) = depth)
    IN [ i \in 1..Len(at) |-> WorkerNode(at[i]) ]

\* The children that the round-robin gives to the node at index i (from
\* 0) of node_count nodes: those at the indices i, i + node_count, ...
RECURSIVE EveryNth(_, _, _)
EveryNth(children, i, node_count) ==
    IF i >= Len(children) THEN << >>
    ELSE << children[i + 1] >> \o EveryNth(children, i + node_count, node_count)

DistributeSkipping(level, current_children) ==
    [ i \in 1..Len(level) |->
        [ level[i] EXCEPT
            !.children = @ \o EveryNth(current_children, i - 1, Len(level) + 1) ] ]

\* nodes[i % node_count].children.push(child), for every child in turn.
Distribute(level, current_children) ==
    [ i \in 1..Len(level) |->
        [ level[i] EXCEPT
            !.children = @ \o EveryNth(current_children, i - 1, Len(level)) ] ]

\* The loop from the deepest level to level 0; depth is the level to
\* handle next, and -1 is the end of the loop.
RECURSIVE Nest(_, _, _)
Nest(members, depth, current_children) ==
    IF depth < 0 THEN current_children
    ELSE LET level == DepthBucket(members, depth)
         IN IF level # << >>
            THEN Nest(members, depth - 1,
                      IF current_children # << >>
                      THEN Distribute(level, current_children)
                      ELSE level)
            ELSE Nest(members, depth - 1, current_children)

\* The greatest depth of the members, 0 at least.
MaxDepth(members) ==
    CHOOSE d \in { 0 } \cup { DepthOf(members[i]) : i \in 1..Len(members) } :
       \A i \in 1..Len(members) : DepthOf(members[i]) <= d

\* &swarm_id[..8.min(swarm_id.len())] panics when byte 8 of the id is not the
\* start of a character.
SliceFails(swarm_id) == swarm_id = "<3><3><3>"

\* The subtree of one swarm.
SwarmNode(workers, swarm_id) ==
    LET members == BySwarm(workers, swarm_id)
    IN [ id |-> swarm_id, type |-> "swarm", state |-> None, health |-> None,
         children |-> Nest(members, MaxDepth(members), << >>) ]

\* The "unassigned" group node.
UnassignedNode(unassigned) ==
    [ id |-> "unassigned", type |-> "group", state |-> None, health |-> None,
      children |-> [ i \in 1..Len(unassigned) |-> WorkerNode(unassigned[i]) ] ]

\* build_lineage_tree; swarm_order is the order in which by_swarm is
\* iterated.
BuildLineageTree(workers_json, swarm_order) ==
    LET decoded == DecodeWorkers(workers_json)
    IN IF decoded = None THEN [ outcome |-> "Err", tree |-> << >> ]
       ELSE IF \E i \in 1..Len(swarm_order) : SliceFails(swarm_order[i])
       THEN [ outcome |-> "panic", tree |-> << >> ]
       ELSE LET workers == decoded[1]
                unassigned == UnassignedOf(workers)
                swarms == [ i \in 1..Len(swarm_order) |->
                              SwarmNode(workers, swarm_order[i]) ]
            IN [ outcome |-> "Ok",
                 tree |-> << [ id |-> "fleet", type |-> "root", state |-> None,
                               health |-> None,
                               children |->
                                  swarms \o (IF unassigned # << >>
                                             THEN << UnassignedNode(unassigned) >>
                                             ELSE << >>) ] >> ]

\* One call, on a new accumulator: workers_json decodes to up to MaxWorkers
\* workers, or does not decode.
build_lineage_tree ==
    /\ compCall.op = "new"
    /\ CompStepped
    /\ \E k \in 0..MaxWorkers :
         \E f \in [ 1..k -> [ s : SwarmIdInputs, d : DepthLevelInputs ] ] :
           \E workers_json \in { WorkersJson(k, f) } \cup
                                (IF k = 0 THEN { NotWorkersJson } ELSE { }) :
             \E swarm_order \in Orders(SwarmIds(workers_json.workers)) :
               LET r == BuildLineageTree(workers_json, swarm_order)
               IN /\ compRet' = r.tree
                  /\ compCall' = [ op |-> "build_lineage_tree",
                                   arg |-> workers_json,
                                   outcome |-> r.outcome ]
    /\ UNCHANGED << points, compNow, pushed >>

LineageNext ==
    \/ build_lineage_tree

(***************************************************************************)
(* Specifications: one engine runs, the others stay as constructed.        *)
(***************************************************************************)

\* The feeding of one stream in chunks has not started.
ChunkIdle ==
    /\ whole = << >>
    /\ rest = << >>
    /\ chunkParser = NewParser
    /\ chunkOut = << >>
    /\ chunkNow = 1
    /\ cutMidLine = FALSE

\* topological_sort has not been called.
DagIdle ==
    /\ nodes = << >>
    /\ DagStart

\* No counter was constructed and no swarm call was made.
SwcIdle ==
    /\ swc = << >>
    /\ swcLog = << >>
    /\ swcRet = None
    /\ swcPanicked = FALSE

SwarmIdle ==
    /\ swarmCall = None
    /\ swarmRet = None
    /\ routePicks = << >>

BusSpecInit == BusInit /\ LogInit /\ ChunkIdle /\ SearchInit /\ DagIdle
    /\ SolverIdle /\ SwcIdle /\ SwarmIdle
    /\ CompInit /\ MeInit

SpecBus == BusSpecInit /\ [][BusNext]_vars

LogSpecInit == BusInit /\ LogInit /\ ChunkIdle /\ SearchInit /\ DagIdle
    /\ SolverIdle /\ SwcIdle /\ SwarmIdle
    /\ CompInit /\ MeInit

SpecLog == LogSpecInit /\ [][LogNext]_vars

ChunkSpecInit == BusInit /\ LogInit /\ ChunkInit /\ SearchInit /\ DagIdle
    /\ SolverIdle /\ SwcIdle /\ SwarmIdle
    /\ CompInit /\ MeInit

SpecChunk == ChunkSpecInit /\ [][ChunkNext]_vars

SrchSpecInit == BusInit /\ LogInit /\ ChunkIdle /\ SearchInit /\ DagIdle
    /\ SolverIdle /\ SwcIdle /\ SwarmIdle
    /\ CompInit /\ MeInit

SpecSearch == SrchSpecInit /\ [][SrchNext]_vars

SrchLockSpecInit == BusInit /\ LogInit /\ ChunkIdle /\ SearchInit /\ DagIdle
    /\ SolverIdle /\ SwcIdle /\ SwarmIdle
    /\ CompInit /\ MeInit

SpecSearchLock == SrchLockSpecInit /\ [][SrchLockNext]_vars

DagSpecInit == BusInit /\ LogInit /\ ChunkIdle /\ SearchInit /\ DagInit
    /\ SolverIdle /\ SwcIdle /\ SwarmIdle
    /\ CompInit /\ MeInit

SpecDag == DagSpecInit /\ [][DagNext]_vars

CyclesSpecInit == BusInit /\ LogInit /\ ChunkIdle /\ SearchInit /\ DagIdle
    /\ CyclesInit /\ SwcIdle /\ SwarmIdle
    /\ CompInit /\ MeInit

SpecCycles == CyclesSpecInit /\ [][CyclesNext]_vars

CriticalSpecInit == BusInit /\ LogInit /\ ChunkIdle /\ SearchInit /\ DagIdle
    /\ CriticalInit /\ SwcIdle /\ SwarmIdle
    /\ CompInit /\ MeInit

SpecCritical == CriticalSpecInit /\ [][CriticalNext]_vars

ReadySpecInit == BusInit /\ LogInit /\ ChunkIdle /\ SearchInit /\ DagIdle
    /\ ReadyInit /\ SwcIdle /\ SwarmIdle
    /\ CompInit /\ MeInit

SpecReady == ReadySpecInit /\ [][ReadyNext]_vars

ScheduleSpecInit == BusInit /\ LogInit /\ ChunkIdle /\ SearchInit /\ DagIdle
    /\ ScheduleInit /\ SwcIdle /\ SwarmIdle
    /\ CompInit /\ MeInit

SpecSchedule == ScheduleSpecInit /\ [][ScheduleNext]_vars

SwcSpecInit == BusInit /\ LogInit /\ ChunkIdle /\ SearchInit /\ DagIdle
    /\ SolverIdle /\ SwcInit /\ SwarmIdle
    /\ CompInit /\ MeInit

SpecSwc == SwcSpecInit /\ [][SwcNext]_vars

SwarmSpecInit == BusInit /\ LogInit /\ ChunkIdle /\ SearchInit /\ DagIdle
    /\ SolverIdle /\ SwcIdle /\ SwarmInit
    /\ CompInit /\ MeInit

SpecSwarm == SwarmSpecInit /\ [][SwarmNext]_vars

CompSpecInit == BusInit /\ LogInit /\ ChunkIdle /\ SearchInit /\ DagIdle
    /\ SolverIdle /\ SwcIdle /\ SwarmIdle
    /\ CompInit /\ MeInit

SpecCompound == CompSpecInit /\ [][CompNext]_vars

SpecLineage == CompSpecInit /\ [][LineageNext]_vars

MeSpecInit == BusInit /\ LogInit /\ ChunkIdle /\ SearchInit /\ DagIdle
    /\ SolverIdle /\ SwcIdle /\ SwarmIdle
    /\ CompInit /\ MeInit

SpecMetrics == MeSpecInit /\ [][MeNext]_vars

SpecDownsample == MeSpecInit /\ [][DownsampleNext]_vars

(***************************************************************************)
(* RingBus: properties.                                                    *)
(***************************************************************************)

\* The ids of a list of messages, in order.
Ids(msgs) == [ i \in 1 .. Len(msgs) |-> msgs[i].id ]

\* C1: once a message has been returned to handle h by read, no later
\* read(h, limit, unread_only = true) returns it again: in every state the
\* bus can reach by publish, subscribe, unsubscribe, read, read_topic and
\* drain_old calls, what read(h, limit, true) returns next holds no
\* message already delivered to h, for every h, limit and iteration order.
C1_NoRedelivery ==
    \A h \in Handles, l \in LimitInputs :
      \A topicOrder \in Orders(subscribers[h]) :
        LET R == ReadResult(channels, topicOrder, h, UnwrapOr(l, DEFAULT_LIMIT), TRUE)
        IN \A i \in 1 .. Len(R) : << h, R[i].id >> \notin delivered

\* A read with unread_only returned something while a message delivered
\* earlier to the same handle is still in a subscribed channel and was
\* left out of the result.
C1_Witness ==
    /\ busCall.op = "read"
    /\ busCall.unread_only
    /\ busRet # << >>
    /\ \E t \in subscribers[busCall.handle] :
         \E i \in 1 .. Len(channels[t]) :
           /\ << busCall.handle, channels[t][i].id >> \in delivered
           /\ channels[t][i].id \notin Range(Ids(busRet))

\* Priority descending, then timestamp ascending.
PriorityOrdered(msgs) ==
    \A i, j \in 1 .. Len(msgs) :
      (i < j) =>
        \/ msgs[i].priority > msgs[j].priority
        \/ msgs[i].priority = msgs[j].priority /\ msgs[i].timestamp <= msgs[j].timestamp

\* C2: the list read returns is ordered by priority descending and, among
\* equal priorities, by timestamp ascending, for every bus state, handle,
\* limit and unread_only value (and the list the last read returned is).
C2_ReadSorted ==
    /\ (busCall.op = "read") => PriorityOrdered(busRet)
    /\ \A h \in Handles, l \in LimitInputs, u \in UnreadInputs :
         \A topicOrder \in Orders(subscribers[h]) :
           PriorityOrdered(ReadResult(channels, topicOrder, h,
                                      UnwrapOr(l, DEFAULT_LIMIT), UnwrapOr(u, TRUE)))

\* A read returned two messages of equal priority and different
\* timestamps: the tie-break decided their order.
C2_Witness ==
    /\ busCall.op = "read"
    /\ \E i, j \in 1 .. Len(busRet) :
         /\ i < j
         /\ busRet[i].priority = busRet[j].priority
         /\ busRet[i].timestamp < busRet[j].timestamp

DigitValue(c) == CHOOSE d \in 0 .. 9 : DigitChars[d + 1] = c

\* The number a string of decimal digits denotes.
RECURSIVE ParseDecimal(_)
ParseDecimal(ds) ==
    IF Len(ds) = 1 THEN DigitValue(ds[1])
    ELSE 10 * ParseDecimal(SubSeq(ds, 1, Len(ds) - 1)) + DigitValue(ds[Len(ds)])

\* msg_<positive integer>
IsMsgId(id) ==
    /\ Len(id) >= 5
    /\ SubSeq(id, 1, 4) = << "m", "s", "g", "_" >>
    /\ \A k \in 5 .. Len(id) : id[k] \in Range(DigitChars)
    /\ id[5] # "0"

IdNumber(id) == ParseDecimal(SubSeq(id, 5, Len(id)))

\* C3: every publish returns an id of the form msg_<n>, n a positive
\* integer strictly greater than the n of every earlier publish on the bus
\* (on any topic, also after eviction or drain_old removed messages), and
\* no two messages of the bus share an id.
C3_IdsIncrease ==
    /\ \A i \in 1 .. Len(published) :
         /\ IsMsgId(published[i].id)
         /\ IdNumber(published[i].id) > 0
    /\ \A i, j \in 1 .. Len(published) :
         (i < j) => IdNumber(published[i].id) < IdNumber(published[j].id)
    /\ \A t, u \in Topics :
         \A i \in 1 .. Len(channels[t]), j \in 1 .. Len(channels[u]) :
           (channels[t][i].id = channels[u][j].id) => (t = u /\ i = j)

MessageCount == Len(channels["t1"]) + Len(channels["t2"])

\* Three publishes happened, on both topics, and an earlier message was
\* removed (evicted or drained) before the last one.
C3_Witness ==
    /\ Len(published) >= 3
    /\ MessageCount < Len(published)
    /\ \E i, j \in 1 .. Len(published) : published[i].topic # published[j].topic

\* The ids published to a topic, in publish order.
RECURSIVE PublishedTo(_, _)
PublishedTo(hist, topic) ==
    IF hist = << >> THEN << >>
    ELSE IF Head(hist).topic = topic
         THEN << Head(hist).id >> \o PublishedTo(Tail(hist), topic)
         ELSE PublishedTo(Tail(hist), topic)

C4_Step ==
    /\ \A t \in Topics : Len(channels'[t]) <= MAX_MESSAGES_PER_TOPIC
    /\ (~drainCalled') =>
         \A t \in Topics :
           Ids(channels'[t]) = LastN(PublishedTo(published', t), MAX_MESSAGES_PER_TOPIC)
    /\ (Len(published') > Len(published)) =>
         \A u \in Topics \ { published'[Len(published')].topic } :
           channels'[u] = channels[u]

\* C4: after every step each channel holds at most MAX_MESSAGES_PER_TOPIC
\* messages; as long as drain_old was not called, the channel of a topic
\* holds exactly the min(N, capacity) most recent of the N messages
\* published to it, in publish order; and a publish leaves the channels of
\* the other topics as they were.
C4_Capacity == [][C4_Step]_vars

\* Without any drain_old, a topic received more messages than the capacity
\* and its channel is full, while the other topic holds a message.
C4_Witness ==
    /\ ~drainCalled
    /\ \E t, u \in Topics :
         /\ t # u
         /\ Len(PublishedTo(published, t)) > MAX_MESSAGES_PER_TOPIC
         /\ Len(channels[t]) = MAX_MESSAGES_PER_TOPIC
         /\ channels[u] # << >>


(***************************************************************************)
(* LogStream: properties.                                                  *)
(***************************************************************************)

\* What the claims compare of a ParsedEvent: all but its timestamp.
EventFields(e) ==
    [ event_type |-> e.event_type, subtype |-> e.subtype,
      session_id |-> e.session_id, text |-> e.text, is_error |-> e.is_error ]

EventsFields(es) == [ i \in 1 .. Len(es) |-> EventFields(es[i]) ]

\* The part of the stream fed so far.
Consumed == SubSeq(whole, 1, Len(whole) - Len(rest))

\* The lines of a stream that are terminated by a line feed.
TerminatedLines(s) == SubSeq(SplitLF(s), 1, Len(SplitLF(s)) - 1)

\* The text after the last line feed of a stream.
Unterminated(s) == SplitLF(s)[Len(SplitLF(s))]

\* C5: however the stream is cut into consecutive chunks (in the middle of
\* a line, empty chunks), the parse_batch calls together return the same
\* events (event_type, subtype, session_id, text, is_error) and leave the
\* same state, session_id, error_count, total_events, output_lines and
\* line_buffer as one parse_batch call on the whole of what was fed; the
\* text after the last line feed waits in line_buffer and has produced no
\* event: there is one event per decodable line terminated by a line feed.
C5_ChunkIndependence ==
    LET one == ParseBatch(NewParser, Consumed, 1)
    IN /\ EventsFields(chunkOut) = EventsFields(one.ret)
       /\ chunkParser.state = one.p.state
       /\ chunkParser.session_id = one.p.session_id
       /\ chunkParser.error_count = one.p.error_count
       /\ chunkParser.total_events = one.p.total_events
       /\ chunkParser.output_lines = one.p.output_lines
       /\ chunkParser.line_buffer = one.p.line_buffer
       /\ chunkParser.line_buffer = Unterminated(Consumed)
       /\ Len(chunkOut) =
            Cardinality({ i \in 1 .. Len(TerminatedLines(Consumed)) :
                            Decode(Trim(TerminatedLines(Consumed)[i])) # None })

\* The whole stream was fed, in chunks of which one ended in the middle of
\* a line, at different times, and two events came out.
C5_Witness ==
    /\ rest = << >>
    /\ cutMidLine
    /\ Len(chunkOut) >= 2
    /\ chunkOut[1].timestamp # chunkOut[Len(chunkOut)].timestamp

\* The worker state and stored session id after a line, by the table of
\* the claim: st is [state, session_id].
C6_AfterLine(st, line) ==
    LET raw == Decode(Trim(line))
    IN IF raw = None THEN st
       ELSE IF /\ raw[1].event_type = Some("system")
               /\ raw[1].subtype = Some("init")
               /\ raw[1].session_id \notin { None, Some("") }
            THEN [ state |-> "ready", session_id |-> raw[1].session_id[1] ]
       ELSE IF raw[1].event_type = Some("assistant")
            THEN [ st EXCEPT !.state = "working" ]
       ELSE st

RECURSIVE C6_AfterLines(_, _, _)
C6_AfterLines(st, lines, k) ==
    IF k > Len(lines) THEN st
    ELSE C6_AfterLines(C6_AfterLine(st, lines[k]), lines, k + 1)

C6_Step ==
    LET before == [ state |-> parser.state, session_id |-> parser.session_id ]
        after  == [ state |-> parser'.state, session_id |-> parser'.session_id ]
        called == logNow' = logNow   \* a call, not a tick of the clock
    IN /\ (called /\ logCall'.op = "parse_line") =>
            after = C6_AfterLine(before, logCall'.arg)
       /\ (called /\ logCall'.op = "parse_batch") =>
            after = C6_AfterLines(before,
                                  TerminatedLines(parser.line_buffer \o logCall'.arg), 1)
       /\ (~called \/ logCall'.op \notin { "parse_line", "parse_batch" }) =>
            after = before

\* C6: state starts as "idle"; a decoded event with type "system", subtype
\* "init" and a non-empty session_id sets state to "ready" and stores the
\* session_id; a decoded event with type "assistant" sets state to
\* "working"; no other input (result events, unknown types, init without
\* session_id, non-JSON lines, empty lines) and no other call changes state
\* or the stored session_id.
C6_StateMachine ==
    /\ parser.state = "idle" /\ parser.session_id = ""
    /\ [][C6_Step]_vars

\* After an init event and an assistant event, a line that is no event of
\* those two kinds was parsed: the parser is still "working" with the
\* session id of the init event.
C6_Witness ==
    /\ parser.state = "working"
    /\ parser.session_id = "s1"
    /\ logCall.op = "parse_line"
    /\ C6_AfterLine([ state |-> "idle", session_id |-> "" ], logCall.arg)
         = [ state |-> "idle", session_id |-> "" ]

(***************************************************************************)
(* SearchIndex: properties.                                                *)
(***************************************************************************)

\* A commit was executed after the document was added.
CommittedAfterAdd(d) == d.opstamp < commitStamp

\* The document was added, a commit was executed after the add with no
\* delete_session in between, and the reader loaded that commit or a
\* later one.
Settled(d) ==
    /\ d.opstamp < snapStamp
    /\ \A del \in deleteCalls :
         ~(d.opstamp < del.opstamp /\ del.opstamp < snapStamp)

\* The query is one term, and of the documents added only d holds it.
UniqueTermOf(query, d) ==
    \E t \in Terms(d.content) :
      /\ Terms(query) = { t }
      /\ \A e \in indexed \ { d } : t \notin Terms(e.content)

\* The document the hit at position i of the last search is.
HitDocument(i) == CHOOSE d \in indexed : d.opstamp = top_docs[i].doc_address

\* The last search returned d, with a positive score.
Returned(d) ==
    \E i \in 1..Len(srchRet) :
      /\ top_docs[i].doc_address = d.opstamp
      /\ srchRet[i].session_id = d.session_id
      /\ srchRet[i].score > 0

\* C7: a document added by index_session is neither returned by search
\* nor counted by stats before a commit was executed after the add; and
\* after index_session(s), commit, reload, a search for a term that only s
\* holds returns s with a positive score and stats counts s.
C7_Visibility ==
    /\ (srchCall.op = "search") =>
         /\ \A i \in 1..Len(top_docs) : CommittedAfterAdd(HitDocument(i))
         /\ \A d \in indexed :
              (Settled(d) /\ UniqueTermOf(srchCall.query, d)) => Returned(d)
    /\ (srchCall.op = "stats") =>
         /\ srchRet.document_count
              <= Cardinality({ d \in indexed : CommittedAfterAdd(d) })
         /\ srchRet.document_count
              >= Cardinality({ d \in indexed : Settled(d) })

\* A search by a term unique to a document that was added, committed and
\* reloaded returned it, while another document, added since and not
\* committed, was left out.
C7_Witness ==
    /\ srchCall.op = "search"
    /\ Len(srchRet) = 1
    /\ \E d \in indexed :
         Settled(d) /\ UniqueTermOf(srchCall.query, d) /\ Returned(d)
    /\ \E e \in indexed : ~CommittedAfterAdd(e)

\* delete_session was called with the session_id of d after d was added,
\* a commit was executed after the call and the reader loaded it.
DeletedById(d) ==
    \E del \in deleteCalls :
      /\ del.session_id = d.session_id
      /\ d.opstamp < del.opstamp
      /\ del.opstamp < snapStamp

\* delete_session was called with the session_id of d and no commit was
\* executed since.
DeletePending(d) ==
    \E del \in deleteCalls :
      /\ del.session_id = d.session_id
      /\ d.opstamp < del.opstamp
      /\ commitStamp <= del.opstamp

\* Second half of C8: between delete_session and the commit after it the
\* session is still returned by search and counted by stats.
C8_StillVisible ==
    /\ (srchCall.op = "search") =>
         \A d \in indexed :
           (Settled(d) /\ DeletePending(d) /\ UniqueTermOf(srchCall.query, d))
             => Returned(d)
    /\ (srchCall.op = "stats") =>
         srchRet.document_count
           >= Cardinality({ d \in indexed : Settled(d) /\ DeletePending(d) })

\* C8: for every indexed session s, whatever the characters of its
\* session_id, after delete_session(s.session_id), commit, reload the
\* session is no longer returned by search and no longer counted by
\* stats; between delete_session and that commit it is still visible.
C8_Deletion ==
    /\ (srchCall.op = "search") =>
         \A i \in 1..Len(top_docs) : ~DeletedById(HitDocument(i))
    /\ (srchCall.op = "stats") =>
         srchRet.document_count
           <= Cardinality({ d \in indexed : ~DeletedById(d) })
    /\ C8_StillVisible

\* A session whose session_id is lower-case letters and digits was
\* deleted, committed and reloaded, and stats counts no document.
C8_Witness ==
    /\ srchCall.op = "stats"
    /\ srchRet.document_count = 0
    /\ \E d \in indexed : DeletedById(d)

\* A caller is inside the critical section of a writer call.
InWriter(c) == pc[c].op \in { "index_session", "commit", "delete_session" }

\* A search or stats step leaves the writer lock and every caller's
\* position as they were.
C9_ReadStep ==
    (srchCall'.op \in { "search", "stats" }) => UNCHANGED << writer, pc >>

\* C9: at most one caller is inside the writer critical section of
\* index_session, commit or delete_session at any time, and it holds the
\* writer lock; a search or stats call never acquires the lock and can be
\* made by any caller outside a writer call, whoever holds the lock.
C9_SingleWriter ==
    /\ [](/\ Cardinality({ c \in Callers : InWriter(c) }) <= 1
          /\ \A c \in Callers : InWriter(c) => writer = Some(c)
          /\ \A c \in Callers : (~InWriter(c)) => ENABLED stats(c))
    /\ [][C9_ReadStep]_vars

\* A search returned a document to one caller while another caller was
\* inside the critical section of a writer call.
C9_Witness ==
    /\ srchCall.op = "search"
    /\ srchRet # << >>
    /\ \E c \in Callers : InWriter(c) /\ c # srchCall.caller

(***************************************************************************)
(* DagSolver::topological_sort: properties.                                *)
(***************************************************************************)

\* The position of an id in order.
Position(id) == CHOOSE i \in 1..Len(order) : order[i] = id

\* Every id a node of this id names in depends_on.
DependenciesOf(id) ==
    UNION { Range(DependsOn(nodes[i])) :
              i \in { k \in 1..Len(nodes) : nodes[k].id = id } }

\* C10: no id appears twice in order; for every dependency edge (u, v)
\* whose two ends are in order, u comes before v; a node is emitted only
\* after all of its dependencies were emitted; and is_valid is true
\* exactly when the length of order equals the number of input nodes.
\* (No in-degree goes below zero, so the decrement of the unsigned
\* counter never wraps.)
C10_TopologicalSort ==
    /\ \A i, j \in 1..Len(order) : (i # j) => order[i] # order[j]
    /\ \A i \in 1..Len(nodes) : \A u \in Range(DependsOn(nodes[i])) :
         (u \in Range(order) /\ nodes[i].id \in Range(order))
           => Position(u) < Position(nodes[i].id)
    /\ \A k \in 1..Len(order) : \A u \in DependenciesOf(order[k]) :
         \E j \in 1..(k - 1) : order[j] = u
    /\ \A id \in DOMAIN in_deg : in_deg[id] >= 0
    /\ (dagRet # None) =>
         /\ dagRet[1].order = order
         /\ dagRet[1].is_valid <=> (Len(dagRet[1].order) = Len(nodes))

\* The sort returned a valid order of three nodes, one of which has two
\* different dependencies.
C10_Witness ==
    /\ dagRet # None
    /\ dagRet[1].is_valid
    /\ Len(dagRet[1].order) = 3
    /\ \E i \in 1..Len(nodes) : Cardinality(Range(DependsOn(nodes[i]))) = 2


(***************************************************************************)
(* DagSolver, whole calls: properties.                                     *)
(***************************************************************************)

\* The edges of the input graph, dependency -> dependent.
EdgeSet(ns) == { << e.dep, e.id >> : e \in Range(Edges(ns, 1)) }

\* The transitive closure of a relation given as a set of pairs.
RECURSIVE Closure(_)
Closure(R) ==
    LET next == R \cup { << x[1][1], x[2][2] >> :
                            x \in { y \in R \X R : y[1][2] = y[2][1] } }
    IN IF next = R THEN R ELSE Closure(next)

\* Some node reaches itself along one edge or more.
HasDirectedCycle(ns) == \E pq \in Closure(EdgeSet(ns)) : pq[1] = pq[2]

\* c lists the nodes of a closed walk: every node has an edge to the next
\* one and the last one has an edge to the first.
IsCycle(ns, c) ==
    /\ c # << >>
    /\ \A i \in 1..Len(c) : << c[i], c[(i % Len(c)) + 1] >> \in EdgeSet(ns)

\* C11: on one input, topological_sort reports is_valid = false exactly
\* when detect_cycles reports has_cycles = true, whatever the input names
\* in depends_on and whether or not ids repeat.
C11_ValidIffAcyclic ==
    (topoRet # None /\ cyclesRet # None)
        => ((topoRet[1].is_valid = FALSE) <=> cyclesRet[1].has_cycles)

\* Both functions were called on an input that has a cycle.
C11_Witness ==
    /\ topoRet # None
    /\ cyclesRet # None
    /\ cyclesRet[1].has_cycles
    /\ topoRet[1].is_valid = FALSE

\* C12: detect_cycles reports has_cycles exactly when the graph has a
\* directed cycle (a node depending on itself included); every list in
\* cycles is a cycle of the graph; cycle_nodes holds every node of every
\* returned cycle.
C12_DetectCycles ==
    cyclesRet # None =>
        LET r == cyclesRet[1]
        IN /\ r.has_cycles <=> HasDirectedCycle(graph)
           /\ \A i \in 1..Len(r.cycles) :
                 /\ IsCycle(graph, r.cycles[i])
                 /\ Range(r.cycles[i]) \subseteq r.cycle_nodes

\* detect_cycles returned a cycle through three nodes.
C12_Witness ==
    /\ cyclesRet # None
    /\ cyclesRet[1].has_cycles
    /\ \E i \in 1..Len(cyclesRet[1].cycles) : Len(cyclesRet[1].cycles[i]) = 3

\* The nodes id depends on.
DepsOf(ns, id) == { e[1] : e \in { x \in EdgeSet(ns) : x[2] = id } }

\* The largest sum of durations along a dependency chain ending at id, the
\* durations added from the start of the chain.
RECURSIVE ChainFinish(_, _)
ChainFinish(ns, id) ==
    FAdd(FoldMax({ ChainFinish(ns, dep) : dep \in DepsOf(ns, id) }),
         DurationOf(NodeMap(ns), id))

\* C13: when critical_path returns a result (the graph is acyclic; the
\* durations are non-negative), total_duration is the largest sum of
\* durations along a dependency chain, every node's slack is at least 0,
\* the path holds exactly the nodes whose slack is below 0.001 in absolute
\* value, and no node of the path comes before a node it depends on.
C13_CriticalPath ==
    (criticalRet # None /\ criticalRet[1].status = "Ok") =>
        LET r == criticalRet[1]
        IN /\ r.total_duration =
                  FoldMax({ ChainFinish(graph, id) : id \in IdsOf(graph) })
           /\ \A k \in 1..Len(r.slack) : r.slack[k].slack >= 0
           /\ Range(r.path) =
                  { r.slack[k].id : k \in { j \in 1..Len(r.slack) :
                                              IsCritical(r.slack[j].slack) } }
           /\ \A i, j \in 1..Len(r.path) :
                 i < j => << r.path[j], r.path[i] >> \notin Closure(EdgeSet(graph))

\* critical_path returned the path of a chain of two nodes or more.
C13_Witness ==
    /\ criticalRet # None
    /\ criticalRet[1].status = "Ok"
    /\ Len(criticalRet[1].path) >= 2
    /\ << criticalRet[1].path[1], criticalRet[1].path[2] >> \in EdgeSet(graph)

\* C14: critical_path fails with an invalid-argument error exactly on the
\* inputs that have a directed cycle: it fails on every cyclic graph and
\* returns a result on every acyclic one.
C14_ErrorIffCyclic ==
    criticalRet # None =>
        ((criticalRet[1].status = "InvalidArg") <=> HasDirectedCycle(graph))

\* critical_path was called on a cyclic graph and failed.
C14_Witness ==
    /\ criticalRet # None
    /\ HasDirectedCycle(graph)
    /\ criticalRet[1].status = "InvalidArg"

\* C15: get_ready_nodes returns exactly the ids of the nodes that are not
\* completed and whose dependencies are all completed, in descending order
\* of priority, a missing priority counting as 0.  (When an id is given to
\* several nodes, its priority is that of the last of them.)
C15_ReadyNodes ==
    readyRet # None =>
        LET r == readyRet[1]
        IN /\ Range(r) =
                 { graph[i].id : i \in { k \in 1..Len(graph) :
                      /\ graph[k].id \notin completed
                      /\ Range(DependsOn(graph[k])) \subseteq completed } }
           /\ \A i, j \in 1..Len(r) :
                 i < j => UnwrapOr(NodeMap(graph)[r[i]].priority, 0)
                            >= UnwrapOr(NodeMap(graph)[r[j]].priority, 0)

\* Of three nodes, two were returned: the one without priority before the
\* one of negative priority; the third is completed or held back.
C15_Witness ==
    /\ readyRet # None
    /\ Len(readyRet[1]) = 2
    /\ Len(graph) = 3
    /\ NodeMap(graph)[readyRet[1][1]].priority = None
    /\ NodeMap(graph)[readyRet[1][2]].priority = Some(-1)
    /\ completed # { }

(***************************************************************************)
(* SlidingWindowCounter: properties.                                       *)
(***************************************************************************)

\* The calls made since the counter was constructed.
SwcCalls == Tail(swcLog)

\* Every call so far was made at the same instant, and every call before
\* the last was an increment.
SameInstant ==
    /\ SwcCalls # << >>
    /\ \A i \in 1..Len(SwcCalls) : SwcCalls[i].now_ms = SwcCalls[1].now_ms
    /\ \A i \in 1..(Len(SwcCalls) - 1) : SwcCalls[i].fn = "increment"

\* C16: on a fresh counter with window_seconds >= 1 and bucket_count >= 1,
\* after k calls of increment(t), get_count(t) returns k and get_rate(t)
\* returns k / window_seconds (and no call of the sequence fails).
C16_SameInstant ==
    (/\ swcLog # << >>
     /\ swcLog[1].window_seconds >= 1
     /\ swcLog[1].bucket_count >= 1
     /\ SameInstant) =>
        LET k    == Len(SwcCalls) - 1
            last == SwcCalls[Len(SwcCalls)]
        IN /\ ~swcPanicked
           /\ last.fn = "get_count" => swcRet = Some(k)
           /\ last.fn = "get_rate" =>
                 swcRet[1].num * swcLog[1].window_seconds = k * swcRet[1].den

\* get_count returned after two increments at the same instant.
C16_Witness ==
    /\ swcLog # << >>
    /\ swcLog[1].window_seconds >= 1
    /\ swcLog[1].bucket_count >= 1
    /\ SameInstant
    /\ Len(SwcCalls) = 3
    /\ SwcCalls[3].fn = "get_count"
    /\ swcRet = Some(2)

\* C17: no call on a SlidingWindowCounter panics, whatever the constructor
\* arguments and whatever the calls and their timestamps.
C17_NoPanic == ~swcPanicked

\* A call on a counter constructed with window_seconds = 0 returned.
C17_Witness ==
    /\ swcLog # << >>
    /\ swcLog[1].window_seconds = 0
    /\ Len(SwcCalls) >= 1
    /\ ~swcPanicked

(***************************************************************************)
(* SwarmEngine: properties.                                                *)
(***************************************************************************)

TallyCalled ==
    /\ swarmCall # None
    /\ swarmCall[1].fn = "tally_votes"
    /\ swarmRet # None

\* The greatest count among the returned tally entries.
TopTally(entries) ==
    LET counts == { entries[o] : o \in DOMAIN entries }
    IN CHOOSE c \in counts : \A d \in counts : d <= c

\* C18: tally_votes returns a winner only when quorum_met is true; for a
\* method other than "supermajority" and "unanimous", quorum_met is true
\* exactly when the counted weight is positive and the top tally is more
\* than half of it or there are at most 2 options; total_votes is the
\* number of votes supplied.
C18_Decisiveness ==
    TallyCalled =>
        LET call == swarmCall[1]
            r    == swarmRet[1]
        IN /\ r.winner # None => r.quorum_met
           /\ call.method \notin { "supermajority", "unanimous" } =>
                 (r.quorum_met <=>
                     /\ r.weighted_total > 0
                     /\ \/ /\ DOMAIN r.tally # { }
                           /\ 2 * TopTally(r.tally) > r.weighted_total
                        \/ Len(call.options) <= 2)
           /\ r.total_votes = Len(call.votes)

\* A majority vote over three options: the top tally is above half of the
\* weight, quorum is met and the winner is returned.
C18_Witness ==
    /\ TallyCalled
    /\ swarmCall[1].method = "majority"
    /\ Len(swarmCall[1].options) = 3
    /\ Len(swarmCall[1].votes) = 3
    /\ 2 * TopTally(swarmRet[1].tally) > swarmRet[1].weighted_total
    /\ swarmRet[1].quorum_met
    /\ swarmRet[1].winner = Some("yes")

\* C19: with method "supermajority" and a positive counted weight,
\* quorum_met is true exactly when the top tally is at least two thirds of
\* the counted weight; a winner holding exactly two thirds meets quorum.
C19_SupermajorityThreshold ==
    (/\ TallyCalled
     /\ swarmCall[1].method = "supermajority"
     /\ swarmRet[1].weighted_total > 0) =>
        (swarmRet[1].quorum_met <=>
            /\ DOMAIN swarmRet[1].tally # { }
            /\ 3 * TopTally(swarmRet[1].tally) >= 2 * swarmRet[1].weighted_total)

\* A supermajority vote in which the top tally is all of the weight.
C19_Witness ==
    /\ TallyCalled
    /\ swarmCall[1].method = "supermajority"
    /\ swarmRet[1].weighted_total > 0
    /\ swarmRet[1].quorum_met
    /\ swarmRet[1].winner # None

RouteCalled ==
    /\ swarmCall # None
    /\ swarmCall[1].fn = "route_tasks"
    /\ swarmRet # None

\* The number of tasks before the i-th that were given to worker.
LoadBefore(i, worker) ==
    Cardinality({ j \in 1..(i - 1) : routePicks[j] = Some(worker) })

\* The trail of worker for the i-th task, 1/10 when there is none.
TrailOf(worker, i) ==
    LET call == swarmCall[1]
    IN IF /\ worker \in DOMAIN call.trails
          /\ call.tasks[i] \in DOMAIN call.trails[worker]
       THEN call.trails[worker][call.tasks[i]]
       ELSE [ num |-> 1, den |-> 10 ]

\* trail^alpha / (1 + load) of worker w is at least that of worker v, for
\* the i-th task.
ScoresAtLeast(w, v, i) ==
    LET a == swarmCall[1].alpha
    IN Pow(TrailOf(w, i).num, a) * Pow(TrailOf(v, i).den, a) * (1 + LoadBefore(i, v))
         >= Pow(TrailOf(v, i).num, a) * Pow(TrailOf(w, i).den, a) * (1 + LoadBefore(i, w))

\* C20: with a non-empty worker list route_tasks maps every task to a
\* worker of the list, picked task by task in input order among the
\* workers that maximise trail_intensity^alpha / (1 + load), load being the
\* number of tasks already given to the worker in this call and a missing
\* trail counting as 0.1 (a task named twice keeps its last pick); with an
\* empty worker list the result is the empty map.
C20_RouteTasks ==
    RouteCalled =>
        LET call == swarmCall[1]
            r    == swarmRet[1]
        IN IF call.workers = << >>
           THEN r = << >>
           ELSE /\ DOMAIN r = Range(call.tasks)
                /\ Len(routePicks) = Len(call.tasks)
                /\ \A i \in 1..Len(call.tasks) :
                      /\ routePicks[i] # None
                      /\ routePicks[i][1] \in Range(call.workers)
                      /\ \A v \in Range(call.workers) :
                            ScoresAtLeast(routePicks[i][1], v, i)
                      /\ (\A j \in (i + 1)..Len(call.tasks) :
                             call.tasks[j] # call.tasks[i])
                            => r[call.tasks[i]] = routePicks[i][1]

\* Three tasks were routed among three workers, and a task named again
\* went to another worker than the first time, because of the load.
C20_Witness ==
    /\ RouteCalled
    /\ Len(swarmCall[1].workers) = 3
    /\ Len(swarmCall[1].tasks) = 3
    /\ swarmCall[1].alpha = 1
    /\ \E i \in 2..3 :
          /\ swarmCall[1].tasks[i] = swarmCall[1].tasks[1]
          /\ routePicks[i] # routePicks[1]

(***************************************************************************)
(* CompoundAccumulator: properties.                                        *)
(***************************************************************************)

\* C21: after N successful push_snapshot calls, get_point_count returns
\* min(N, MAX_POINTS) and get_time_series returns the min(N, MAX_POINTS)
\* points pushed last, in the order they were pushed.
C21_RingBuffer ==
    /\ compCall.op = "get_point_count"
        => compRet = << Min(Len(pushed), MAX_POINTS) >>
    /\ compCall.op = "get_time_series"
        => compRet = LastN(pushed, MAX_POINTS)

\* get_time_series is called after more than MAX_POINTS successful pushes,
\* the evicted point differing from the oldest one kept.
C21_Witness ==
    /\ compCall.op = "get_time_series"
    /\ Len(pushed) > MAX_POINTS
    /\ Len(compRet) = MAX_POINTS
    /\ pushed[1] # compRet[1]

\* The symbol strings of SnapshotInputs that are not a snapshot: a member
\* of the wrong type, a repeated key, a worker without handle, an object
\* left open, a bare word, the empty string.
NotSnapshots ==
    { << "{", "tasksCompleted:-1", "}" >>,
      << "{", "tasksCompleted:x", "}" >>,
      << "{", "tasksCompleted:1", "tasksCompleted:2", "}" >>,
      << "{", "workers:nohandle", "}" >>,
      << "{", "tasksCompleted:1" >>,
      << "x" >>,
      << >> }

\* C22: push_snapshot on a string that is not valid snapshot JSON returns
\* an invalid-argument error and leaves the time series as it was.
C22_InvalidSnapshot ==
    (compCall.op = "push_snapshot" /\ compCall.arg \in NotSnapshots)
        => (compRet = << "InvalidArg" >> /\ points = compCall.before)

\* push_snapshot was given a string that is not a snapshot while the
\* buffer held a point.
C22_Witness ==
    /\ compCall.op = "push_snapshot"
    /\ compCall.arg \in NotSnapshots
    /\ compCall.before # << >>
    /\ compRet = << "InvalidArg" >>

(***************************************************************************)
(* LogStream parser: bounded history, counters, event types, health.       *)
(***************************************************************************)

\* C23: events holds at most MAX_EVENTS entries and output_lines at most
\* MAX_OUTPUT_LINES; each buffer is the most recent arrivals in arrival
\* order; get_recent_output(limit) returns the last min(limit, length)
\* output lines in that order.
C23_BoundedHistory ==
    /\ Len(parser.events) <= MAX_EVENTS
    /\ Len(parser.output_lines) <= MAX_OUTPUT_LINES
    /\ parser.events = LastN(arrivedEvents, MAX_EVENTS)
    /\ parser.output_lines = LastN(arrivedLines, MAX_OUTPUT_LINES)
    /\ logCall.op = "get_recent_output" =>
         LET length == Len(parser.output_lines)
             n == Min(UnwrapOr(logCall.arg, DEFAULT_RECENT_LIMIT), length)
         IN logRet = SubSeq(parser.output_lines, length - n + 1, length)

\* Both buffers have evicted an entry, and get_recent_output was asked for
\* fewer lines than are held.
C23_Witness ==
    /\ Len(arrivedEvents) > MAX_EVENTS
    /\ Len(arrivedLines) > MAX_OUTPUT_LINES
    /\ arrivedLines[1] # parser.output_lines[1]
    /\ logCall.op = "get_recent_output"
    /\ logCall.arg = Some(1)
    /\ Len(logRet) = 1

\* The lines a call hands to the decoder: the argument of parse_line, the
\* complete lines of parse_batch.
LinesOfCall(call) ==
    IF call.op = "parse_line" THEN << call.arg >>
    ELSE IF call.op = "parse_batch" THEN CompleteLines(call.before, call.arg)
    ELSE << >>

DecodesAsEvent(line) == Decode(Trim(line)) # None

\* C24: error_count and total_events never decrease; a call adds to
\* total_events one for every line that decodes as an event and nothing
\* else, and to error_count one for every decoded event whose subtype is
\* "error", which are the events returned with is_error = TRUE;
\* error_count never exceeds total_events.
C24_Counters ==
    /\ [](parser.error_count <= parser.total_events)
    /\ [][ LET called == nLogSteps' # nLogSteps /\ logNow' = logNow
               lines == IF called THEN LinesOfCall(logCall') ELSE << >>
               new == IF called /\ logCall'.op \in { "parse_line", "parse_batch" }
                      THEN logRet' ELSE << >>
               decoded == { i \in 1 .. Len(lines) : DecodesAsEvent(lines[i]) }
           IN /\ parser'.total_events >= parser.total_events
              /\ parser'.error_count >= parser.error_count
              /\ parser'.total_events = parser.total_events + Cardinality(decoded)
              /\ Len(new) = Cardinality(decoded)
              /\ parser'.error_count = parser.error_count
                    + Cardinality({ i \in 1 .. Len(new) : new[i].subtype = "error" })
              /\ \A i \in 1 .. Len(new) :
                    new[i].is_error <=> (new[i].subtype = "error") ]_vars

\* One batch held a line that is no event and an event of subtype "error";
\* before it an event of type "result" without that subtype was counted.
C24_Witness ==
    /\ logCall.op = "parse_batch"
    /\ Len(logRet) = 1
    /\ logRet[1].is_error
    /\ parser.error_count = 1
    /\ parser.total_events = 2
    /\ \E i \in 1 .. Len(parser.events) :
          parser.events[i].event_type = "result" /\ ~parser.events[i].is_error

\* The event types a ParsedEvent is documented to carry.
EventTypes == { "system", "assistant", "result", "unknown" }

\* C25: every ParsedEvent returned by a call or stored in the event buffer
\* has an event_type among "system", "assistant", "result", "unknown".
C25_EventTypes ==
    /\ \A i \in 1 .. Len(parser.events) : parser.events[i].event_type \in EventTypes
    /\ logCall.op \in { "parse_line", "parse_batch" } =>
          \A i \in 1 .. Len(logRet) : logRet[i].event_type \in EventTypes

\* parse_line was given an object without a type member and returned an
\* event.
C25_Witness ==
    /\ logCall.op = "parse_line"
    /\ logCall.arg = << "{", "}" >>
    /\ Len(logRet) = 1
    /\ logRet[1] = parser.events[Len(parser.events)]

\* C26: get_health_signal reports is_healthy = FALSE exactly when the state
\* is "working" and at least HEALTH_TIMEOUT_MS have passed since the last
\* non-empty line was parsed; on a parser that never received a line it
\* reports state "idle", ms_since_last_event = 0, error_count = 0 and
\* is_healthy = TRUE; it changes nothing of the parser.
C26_HealthSignal ==
    logCall.op = "get_health_signal" =>
        /\ logRet.state = logCall.before.state
        /\ ~logRet.is_healthy <=>
              /\ logCall.before.state = "working"
              /\ lastLineAt # None
              /\ logCall.at - lastLineAt[1] >= HEALTH_TIMEOUT_MS
        /\ arrivedEvents = << >> /\ arrivedLines = << >> /\ lastLineAt = None =>
              /\ logRet.state = "idle"
              /\ logRet.ms_since_last_event = 0
              /\ logRet.error_count = 0
              /\ logRet.is_healthy
        /\ parser = logCall.before

\* A working parser is reported unhealthy HEALTH_TIMEOUT_MS after its last
\* line.
C26_Witness ==
    /\ logCall.op = "get_health_signal"
    /\ logRet.state = "working"
    /\ logRet.ms_since_last_event = HEALTH_TIMEOUT_MS
    /\ ~logRet.is_healthy

\* The lines of LineInputs that are not empty after trimming and do not
\* decode as an event: a repeated key, an object left open, plain text.
PlainLines ==
    { << "{", "T:system", "T:assistant", "}" >>,
      << "{", "T:assistant" >>,
      << "x", SP, "x" >>,
      << SP, "x", LF >> }

\* What is left of a plain line without the whitespace around it.
Trimmed(line) == IF line = << SP, "x", LF >> THEN << "x" >> ELSE line

\* The lines of LineInputs that are empty or whitespace only.
BlankLines == { << SP >>, << >> }

\* C27: parse_line on a non-empty line that does not decode as an event
\* returns no event, appends the trimmed line to output_lines and leaves
\* events, state, session_id, error_count and total_events as they were;
\* parse_line on an empty or whitespace-only line changes nothing at all,
\* last_event_at included.
C27_PlainAndBlankLines ==
    /\ (logCall.op = "parse_line" /\ logCall.arg \in PlainLines) =>
          /\ logRet = None
          /\ parser.output_lines =
                LastN(logCall.before.output_lines \o << Trimmed(logCall.arg) >>,
                      MAX_OUTPUT_LINES)
          /\ parser.events = logCall.before.events
          /\ parser.state = logCall.before.state
          /\ parser.session_id = logCall.before.session_id
          /\ parser.error_count = logCall.before.error_count
          /\ parser.total_events = logCall.before.total_events
    /\ (logCall.op = "parse_line" /\ logCall.arg \in BlankLines) =>
          /\ logRet = None
          /\ parser = logCall.before

\* A whitespace-only line was given to a parser that had taken a plain
\* line at an earlier time.
C27_Witness ==
    /\ logCall.op = "parse_line"
    /\ logCall.arg = << SP >>
    /\ logCall.before.output_lines # << >>
    /\ logCall.before.last_event_at > 0
    /\ logNow > logCall.before.last_event_at

(***************************************************************************)
(* RingBus: subscription scoping.                                          *)
(***************************************************************************)

\* C28: every message read(h, ...) returns belongs to a topic h is
\* subscribed to when the call is made; after unsubscribe(h, t) no read by
\* h returns a message of topic t until h subscribes to t again; a read by
\* a handle without subscriptions returns the empty list and leaves the
\* read_by of every message as it was.
C28_SubscriptionScoping ==
    [][ (nSteps' # nSteps /\ now' = now /\ busCall'.op = "read") =>
          LET h == busCall'.handle
          IN /\ \A i \in 1 .. Len(busRet') :
                  /\ busRet'[i].topic \in subscribers[h]
                  /\ << h, busRet'[i].topic >> \notin unsubscribed
             /\ subscribers[h] = {} =>
                  /\ busRet' = << >>
                  /\ channels' = channels ]_vars

\* A handle that unsubscribed from a topic holding a message reads, and
\* gets nothing.
C28_Witness ==
    /\ busCall.op = "read"
    /\ subscribers[busCall.handle] = {}
    /\ \E t \in Topics :
          /\ << busCall.handle, t >> \in unsubscribed
          /\ channels[t] # << >>
          /\ \A i \in 1 .. Len(channels[t]) : channels[t][i].read_by = << >>
    /\ busRet = << >>

(***************************************************************************)
(* SearchIndex: failure to acquire the writer.                             *)
(***************************************************************************)

\* C29: a failure to acquire writer access is local to one call: when
\* index_session, commit or delete_session fails because the writer could
\* not be acquired, only that call fails, and a later writer call that
\* finds no other call holding the writer acquires it.  Every failure to
\* acquire happens with the writer free, so at most one call fails.
C29_LockFailureIsLocal == lockFailures <= 1

\* After a call failed to acquire the writer, search still returns the
\* documents of the reader's snapshot.
C29_Witness ==
    /\ lockFailures >= 1
    /\ srchCall.op = "search"
    /\ Len(srchRet) > 0

(***************************************************************************)
(* MetricsEngine: naming.                                                  *)
(***************************************************************************)

\* The names a create call of the given kind was made for.
CreatedNames(kind) ==
    { creates[i].name : i \in { j \in 1 .. Len(creates) : creates[j].kind = kind } }

\* The index the latest create call of the given kind returned for a name.
LatestIdx(kind, name) ==
    LET calls == { j \in 1 .. Len(creates) :
                     creates[j].kind = kind /\ creates[j].name = name }
    IN creates[CHOOSE j \in calls : \A k \in calls : k <= j].idx

\* The call returned None.
ReturnedNone ==
    /\ meRet.type = "Option<PercentileSnapshot>"
    /\ meRet.value = None

\* Every name of a create call addresses the metric made by the latest
\* such call, and no two names address the same metric.
AddressesLatest(map, store, kind) ==
    /\ DOMAIN map = CreatedNames(kind)
    /\ \A n \in DOMAIN map :
          /\ map[n] = LatestIdx(kind, n)
          /\ map[n] < Len(store)
    /\ \A n, m \in DOMAIN map : (n # m) => (map[n] # map[m])

\* C30: after any sequence of create_histogram and create_counter calls
\* each name addresses exactly one metric of each kind, the one made by the
\* latest create call for it; observe_histogram and increment_counter on a
\* name never created change no state; get_histogram_percentiles and
\* get_counter_rate on a name never created return None.
C30_Naming ==
    /\ AddressesLatest(histograms, histogram_store, "histogram")
    /\ AddressesLatest(counters, counter_store, "counter")
    /\ (meCall.op = "observe_histogram"
          /\ meCall.name \notin CreatedNames("histogram")) => Engine = meCall.before
    /\ (meCall.op = "increment_counter"
          /\ meCall.name \notin CreatedNames("counter")) => Engine = meCall.before
    /\ (meCall.op = "get_histogram_percentiles"
          /\ meCall.name \notin CreatedNames("histogram")) => ReturnedNone
    /\ (meCall.op = "get_counter_rate"
          /\ meCall.name \notin CreatedNames("counter")) => ReturnedNone

\* get_counter_rate was called for a name never created, on an engine
\* that holds a counter of another name.
C30_Witness ==
    /\ meCall.op = "get_counter_rate"
    /\ meCall.name \notin CreatedNames("counter")
    /\ CreatedNames("counter") # { }
    /\ meRet.type = "f64"

(***************************************************************************)
(* RingBus: read markers.                                                  *)
(***************************************************************************)

\* C33: read markers are per subscriber: read(h, limit, unread_only = true)
\* skips a message only if h itself was returned it by an earlier read; a
\* read by another handle, whatever its name, hides nothing from h.  With
\* a limit no result reaches, what read(h) returns next holds every
\* message of h's topics that was never delivered to h.
C33_IndependentMarkers ==
    \A h \in Handles :
      \A topicOrder \in Orders(subscribers[h]) :
        LET R == ReadResult(channels, topicOrder, h, DEFAULT_LIMIT, TRUE)
        IN \A t \in subscribers[h] :
             \A i \in 1 .. Len(channels[t]) :
               (<< h, channels[t][i].id >> \notin delivered)
                   => channels[t][i].id \in Range(Ids(R))

\* A message of a topic both handles are subscribed to was read by the
\* handle "wx" and never delivered to the handle "w".
C33_Witness ==
    \E t \in subscribers[<< "w" >>] \cap subscribers[<< "w", "x" >>] :
      \E i \in 1 .. Len(channels[t]) :
        /\ << << "w", "x" >>, channels[t][i].id >> \in delivered
        /\ << << "w" >>, channels[t][i].id >> \notin delivered
        /\ channels[t][i].read_by = << "w", "x" >>

\* The messages of the topics the reader is subscribed to, as a set.
Subscribed(h) ==
    UNION { Range(channels[t]) : t \in subscribers[h] }

\* C34 as stated: whenever read(h, limit, unread_only = true) returns a
\* message of priority p, it leaves behind no message of priority greater
\* than p that was never delivered to h in a topic h is subscribed to, for
\* every bus state, handle, limit and iteration order.
C34_HighestFirst ==
    \A h \in Handles, l \in LimitInputs :
      \A topicOrder \in Orders(subscribers[h]) :
        LET R == ReadResult(channels, topicOrder, h, UnwrapOr(l, DEFAULT_LIMIT), TRUE)
        IN \A i \in 1 .. Len(R) :
             \A m \in Subscribed(h) :
               (<< h, m.id >> \notin delivered /\ m.id \notin Range(Ids(R)))
                   => m.priority <= R[i].priority

\* C34, amended: whenever read(h, limit, unread_only = true) returns fewer
\* than limit messages, it returns, in priority order, every message of
\* the topics h is subscribed to whose read_by does not contain h, and so
\* leaves none of them behind.  With limit or more such messages the call
\* returns the ones collected newest first, and may leave one of higher
\* priority.
C34_AllWhenUnderLimit ==
    \A h \in Handles, l \in LimitInputs :
      \A topicOrder \in Orders(subscribers[h]) :
        LET limit == UnwrapOr(l, DEFAULT_LIMIT)
            R == ReadResult(channels, topicOrder, h, limit, TRUE)
        IN (Len(R) < limit) =>
             /\ PriorityOrdered(R)
             /\ \A m \in Subscribed(h) :
                   ~Contains(m.read_by, h) => m.id \in Range(Ids(R))

\* A read returned two messages of different priorities, fewer than its
\* limit, and left nothing unread in the reader's topics.
C34_Witness ==
    /\ busCall.op = "read"
    /\ busCall.unread_only
    /\ Len(busRet) = 2
    /\ busRet[1].priority > busRet[2].priority
    /\ \A m \in Subscribed(busCall.handle) : Contains(m.read_by, busCall.handle)

\* The handles a read_by string names: its pieces between commas.
RECURSIVE SplitComma(_)
SplitComma(s) ==
    IF \E i \in 1 .. Len(s) : s[i] = ","
    THEN LET i == CHOOSE k \in 1 .. Len(s) :
                    s[k] = "," /\ \A m \in 1 .. k - 1 : s[m] # ","
         IN << SubSeq(s, 1, i - 1) >> \o SplitComma(SubSeq(s, i + 1, Len(s)))
    ELSE IF s = << >> THEN << >> ELSE << s >>

NoDuplicates(list) ==
    \A i, j \in 1 .. Len(list) : (i # j) => (list[i] # list[j])

\* C35 as stated: in every reachable state the read_by of every message
\* names each handle at most once.
C35_NoDuplicateReaders ==
    \A t \in Topics :
      \A i \in 1 .. Len(channels[t]) :
        NoDuplicates(SplitComma(channels[t][i].read_by))

\* C35, amended: as long as every read was made with unread_only = true,
\* the read_by of every message names each handle at most once; a read
\* with unread_only = false appends the handle once more to every message
\* it returns.
C35_NoDuplicateReadersUnreadOnly ==
    ~rereadCalled => C35_NoDuplicateReaders

\* A message was read by both handles, every read made with
\* unread_only = true.
C35_Witness ==
    /\ ~rereadCalled
    /\ \E t \in Topics :
         \E i \in 1 .. Len(channels[t]) :
           Len(SplitComma(channels[t][i].read_by)) = 2


\* C39: whenever tally_votes returns a non-null winner, the winner is one
\* of the options passed in and no tally entry has a strictly greater
\* count, also when votes name a value that is not among the options.
C39_WinnerIsOption ==
    (TallyCalled /\ swarmRet[1].winner # None) =>
        LET winner == swarmRet[1].winner[1]
            tally == swarmRet[1].tally
        IN /\ winner \in Range(swarmCall[1].options)
           /\ \A o \in DOMAIN tally : tally[o] <= tally[winner]

\* A vote names a value that is not among the options, and a winner is
\* returned.
C39_Witness ==
    /\ TallyCalled
    /\ swarmCall[1].method = "majority"
    /\ \E k \in 1 .. Len(swarmCall[1].votes) :
         swarmCall[1].votes[k].vote_value \notin Range(swarmCall[1].options)
    /\ swarmRet[1].winner # None


\* The document was added and a commit executed after the add was loaded
\* by the reader.
Loaded(d) == d.opstamp < snapStamp

\* C40: delete_session(id), commit, reload removes no document whose
\* session_id differs from id: every loaded session that no delete_session
\* call named by its session_id is still returned by a search for a term
\* only it holds, and is still counted by stats.
C40_TargetedDelete ==
    /\ (srchCall.op = "search") =>
         \A d \in indexed :
           (Loaded(d) /\ ~DeletedById(d) /\ UniqueTermOf(srchCall.query, d))
             => Returned(d)
    /\ (srchCall.op = "stats") =>
         srchRet.document_count
           >= Cardinality({ d \in indexed : Loaded(d) /\ ~DeletedById(d) })

\* delete_session was called with another session_id than that of a loaded
\* session, committed and reloaded, and stats still counts the session.
C40_Witness ==
    /\ srchCall.op = "stats"
    /\ srchRet.document_count = 1
    /\ \E d \in indexed :
         /\ Loaded(d)
         /\ ~DeletedById(d)
         /\ \E del \in deleteCalls :
              /\ del.session_id # d.session_id
              /\ d.opstamp < del.opstamp
              /\ del.opstamp < snapStamp


\* The timestamps of the calls so far start at from or later and never
\* decrease.
NonDecreasingFrom(from) ==
    /\ \A i \in 1..Len(SwcCalls) : SwcCalls[i].now_ms >= from
    /\ \A i \in 1..(Len(SwcCalls) - 1) :
         SwcCalls[i].now_ms <= SwcCalls[i + 1].now_ms

\* The number of increments among the calls so far made at since or later.
IncrementsSince(since) ==
    Cardinality({ i \in 1..Len(SwcCalls) :
                    /\ SwcCalls[i].fn = "increment"
                    /\ SwcCalls[i].now_ms >= since })

\* What C36 asks of a get_count or get_rate call that returned, the
\* timestamps of the calls starting at from: the count includes no
\* increment made more than the window length before now, so it is 0, and
\* the rate 0, once the last increment is a window length or more old.
ForgetsAfterWindow(from) ==
    (/\ SwcCalls # << >>
     /\ NonDecreasingFrom(from)
     /\ SwcCalls[Len(SwcCalls)].fn \in { "get_count", "get_rate" }
     /\ ~swcPanicked) =>
        LET last   == SwcCalls[Len(SwcCalls)]
            window == swcLog[1].window_seconds * 1000
            recent == IncrementsSince(last.now_ms - window)
        IN /\ last.fn = "get_count" => swcRet[1] <= recent
           /\ (IncrementsSince(last.now_ms - window + 1) = 0) =>
                 /\ last.fn = "get_count" => swcRet = Some(0)
                 /\ last.fn = "get_rate" => swcRet[1].num = 0

\* C36: for every sequence of calls with non-decreasing timestamps starting
\* at any value >= 0, if the last increment was made at t and now - t is
\* the window length or more, get_count(now) and get_rate(now) return 0;
\* get_count(now) never includes an increment made before now - window.
C36_ForgetsAfterWindow == ForgetsAfterWindow(0)

\* An increment was made, and get_count, called a window length or more
\* later, returned 0.
C36_Witness ==
    /\ Len(SwcCalls) = 2
    /\ NonDecreasingFrom(0)
    /\ SwcCalls[1].fn = "increment"
    /\ SwcCalls[2].fn = "get_count"
    /\ SwcCalls[2].now_ms - SwcCalls[1].now_ms >= swcLog[1].window_seconds * 1000
    /\ swcLog[1].window_seconds >= 1
    /\ swcRet = Some(0)


\* The nodes of the input that lie on a directed cycle: a node reaches
\* itself along one edge or more.
OnDirectedCycle(ns) ==
    { x \in IdsOf(ns) : << x, x >> \in Closure(EdgeSet(ns)) }

\* C38: the cycle_nodes detect_cycles returns are exactly the nodes of the
\* input that lie on some directed cycle.
C38_CycleNodes ==
    cyclesRet # None => cyclesRet[1].cycle_nodes = OnDirectedCycle(graph)

\* detect_cycles returned on a graph where two nodes lie on a cycle and a
\* third does not, and cycle_nodes holds the two.
C38_Witness ==
    /\ cyclesRet # None
    /\ Cardinality(IdsOf(graph)) = 3
    /\ Cardinality(OnDirectedCycle(graph)) = 2
    /\ cyclesRet[1].cycle_nodes = OnDirectedCycle(graph)


\* The number of ids the rounds so far have returned: a round returns one
\* id for every node it finds ready.
RECURSIVE ReturnedCount(_)
ReturnedCount(rs) ==
    IF rs = << >> THEN 0 ELSE Len(Head(rs)) + ReturnedCount(Tail(rs))

\* Nodes remain: fewer ids were returned than the list has nodes.
NodesRemain == ReturnedCount(rounds) < Len(graph)

\* C37, first half: on a node list topological_sort reports valid, round k
\* of the loop returns the ids of level k of topological_sort's levels, and
\* the loop stops, after one round per level and a last empty one, with
\* every node completed.
C37_ValidRounds ==
    (topoRet # None /\ topoRet[1].is_valid) =>
        LET sorted == topoRet[1].levels
        IN /\ Len(rounds) <= Len(sorted) + 1
           /\ \A k \in 1..Len(rounds) :
                IF k <= Len(sorted)
                THEN /\ Range(rounds[k]) = Range(sorted[k])
                     /\ Len(rounds[k]) = Len(sorted[k])
                ELSE rounds[k] = << >>
           /\ LoopStopped =>
                /\ ~NodesRemain
                /\ completed = IdsOf(graph)

\* C37, second half: on a node list with a directed cycle the loop stops,
\* after fewer rounds than the list has nodes plus one, at a round that
\* returns no id, and in every round nodes remain that no round returned.
C37_CycleStalls ==
    HasDirectedCycle(graph) =>
        /\ NodesRemain
        /\ Len(rounds) <= Len(graph)

\* C37: the loop that starts with completed = {} and adds all the ids
\* get_ready_nodes returns replays topological_sort's levels, round k being
\* level k, and completes every node on a list topological_sort reports
\* valid; on a list with a cycle it reaches a round that returns no id
\* while nodes remain.
C37_SchedulingProgress == C37_ValidRounds /\ C37_CycleStalls

\* On a valid list of three nodes in three levels the loop has stopped
\* after returning each level in turn.
C37_Witness ==
    /\ topoRet # None
    /\ topoRet[1].is_valid
    /\ Len(topoRet[1].levels) = 3
    /\ Len(rounds) = 4
    /\ LoopStopped
    /\ ~NodesRemain

\* On a list with a cycle the loop has stopped with nodes remaining, after
\* a round that returned a node.
C37_CycleWitness ==
    /\ HasDirectedCycle(graph)
    /\ LoopStopped
    /\ Len(rounds) = 2
    /\ NodesRemain


(***************************************************************************)
(* downsample: properties.                                                 *)
(***************************************************************************)

\* The sum of column c over the rows lo..hi of pts.
RECURSIVE ColumnSum(_, _, _, _)
ColumnSum(pts, c, lo, hi) ==
    IF lo > hi THEN 0 ELSE pts[lo][c] + ColumnSum(pts, c, lo + 1, hi)

\* The rows all have the same length.
EqualLength(pts) ==
    \A i, k \in 1..Len(pts) : Len(pts[i]) = Len(pts[k])

\* C31: for every list of equal-length rows and every factor F (0 taken as
\* 1), downsample returns ceil(len / F) rows, and row j is the column-wise
\* arithmetic mean of the input rows j * F .. min((j + 1) * F, len) - 1
\* (counted from 0), the last chunk averaged over its own size.
C31_Downsample ==
    (/\ meCall.op = "downsample"
     /\ meCall.points_json.decodes
     /\ EqualLength(meCall.points_json.rows)) =>
        LET pts == meCall.points_json.rows
            F      == IF meCall.factor = 0 THEN 1 ELSE meCall.factor
            len    == Len(pts)
        IN /\ meRet.value # None
           /\ LET out == meRet.value[1]
              IN /\ Len(out) = (len + F - 1) \div F
                 /\ \A j \in 0..(Len(out) - 1) :
                      LET lo == j * F + 1
                          hi == Min((j + 1) * F, len)
                      IN /\ Len(out[j + 1]) = Len(pts[1])
                         /\ \A c \in 1..Len(out[j + 1]) :
                              out[j + 1][c]
                                = Frac(ColumnSum(pts, c, lo, hi), hi - lo + 1)

\* Three rows of two columns were downsampled by 2: two rows come back,
\* the second the third input row itself.
C31_Witness ==
    /\ meCall.op = "downsample"
    /\ meCall.points_json.decodes
    /\ meCall.factor = 2
    /\ meCall.points_json.rows = << << 1, 2 >>, << 2, 4 >>, << 4, 4 >> >>
    /\ meRet.value = Some(<< << Frac(3, 2), Frac(6, 2) >>,
                             << Frac(4, 1), Frac(4, 1) >> >>)


(***************************************************************************)
(* build_lineage_tree: properties.                                         *)
(***************************************************************************)

\* The ids of the worker nodes of the subtree of node, in depth-first
\* order; a node listed once for every time it occurs.
RECURSIVE WorkerIds(_)
RECURSIVE WorkerIdsOfAll(_, _)
WorkerIds(node) ==
    (IF node.type = "worker" THEN << node.id >> ELSE << >>)
        \o WorkerIdsOfAll(node.children, 1)

WorkerIdsOfAll(children, i) ==
    IF i > Len(children) THEN << >>
    ELSE WorkerIds(children[i]) \o WorkerIdsOfAll(children, i + 1)

\* How many times x occurs in the list.
Occurrences(list, x) == Cardinality({ i \in 1..Len(list) : list[i] = x })

\* The two lists hold the same elements the same number of times.
SameBag(l1, l2) ==
    /\ Len(l1) = Len(l2)
    /\ \A x \in Range(l1) \cup Range(l2) : Occurrences(l1, x) = Occurrences(l2, x)

\* The handles of the workers of a list, in order.
HandlesOf(workers) == [ i \in 1..Len(workers) |-> workers[i].handle ]

=============================================================================
